---- MODULE Spec2Model ----
(***************************************************************************)
(* Floor-plan ingestion pipeline of overwatch-cloud                        *)
(* (src/app/services/floor_plan_ingestion.py).                             *)
(*                                                                         *)
(* Units.  Planar coordinates are integers in quarter metres (0.25 m), so  *)
(* that 1.5 m = 6, edge midpoints of polygons drawn on the half-metre grid *)
(* and the bounding-box origin are integers.  Areas are kept doubled       *)
(* (shoelace sum), i.e. in 1/32 m^2.  area_sq_m and coverage_value are in  *)
(* hundredths.  Geographic coordinates are offsets from the venue anchor   *)
(* in 1e-8 degrees (the resolution round(.., 8) leaves).  Identifiers      *)
(* (uuid4) are fresh naturals drawn from a counter.                        *)
(***************************************************************************)
EXTENDS Integers, Sequences, FiniteSets, TLC

\* ------------------------------------------------------------------ bounds
MaxPages == 3      \* pages a PDF renders to
MaxRooms == 3      \* room polygons extracted from one document (all its pages)
MaxDoors == 1      \* door positions extracted from one document
MaxPlanRooms == 3  \* room polygons of one floor plan (plan specification)
MaxPlanDoors == 2  \* door positions of one floor plan (plan specification)
MaxShapes == 2     \* room polygons of one drawing (shapes specification)
MaxInfoPages == 3  \* the page count the metadata of a PDF report
MaxSegments == 3    \* wall segments handed to the door detection
MaxEntities == 3    \* entities of a drawing
MaxPushEntities == 1   \* entities of one push
MaxVersion == 2   \* largest cloud_version of a row
RoundTripReach == 300  \* planar coordinates of the round trip, in twelfths of a metre

\* ------------------------------------------------------- program constants
METERS_PER_DEG_LAT == 111320
DOOR_REACH_4 == 6          \* 1.5 m in quarter metres
PERCH_AREA_100 == 1500     \* 15 m^2 in hundredths
PERCH_MAX == 4
PERCH_MIN == 1
DEFAULT_PRIORITY == 3
INDOOR_HEIGHT_10 == 30     \* 3.0 m in tenths
OUTDOOR_HEIGHT_10 == 50    \* 5.0 m in tenths

\* None of Python, for values that are sequences otherwise
None == <<>>

\* page_number = None (page numbers are 1-based)
NoPage == 0

\* no exception raised
NoError == ""

\* --------------------------------------------------------------- arithmetic
Abs(n) == IF n < 0 THEN -n ELSE n

Min2(a, b) == IF a < b THEN a ELSE b

Max2(a, b) == IF a > b THEN a ELSE b

SetMin(S) == CHOOSE m \in S : \A n \in S : m <= n

SetMax(S) == CHOOSE m \in S : \A n \in S : m >= n

\* floor(n / d) for d > 0 and any integer n
FloorDiv(n, d) == IF n >= 0 THEN n \div d ELSE -((-n + d - 1) \div d)

\* round(n / d) as Python's round does on an exactly represented value:
\* to nearest, ties to the even neighbour (d > 0)
RoundHalfEven(n, d) ==
    LET q == FloorDiv(n, d)
        r == n - q * d
    IN  IF 2 * r < d THEN q
        ELSE IF 2 * r > d THEN q + 1
        ELSE IF q % 2 = 0 THEN q ELSE q + 1

\* fractions <<num, den>> with den > 0
FracLess(a, b) ==
    IF a[2] = b[2] THEN a[1] < b[1] ELSE a[1] * b[2] < b[1] * a[2]

FracMin(a, b) == IF FracLess(b, a) THEN b ELSE a

\* ---------------------------------------------------------------- geometry
\* A polygon is the coordinate list given to shapely's Polygon(coords).
\* poly.exterior.coords: shapely closes the ring, repeating the first
\* coordinate at the end unless the list already ends with it.
ExteriorCoords(coords) ==
    IF coords[Len(coords)] = coords[1] THEN coords ELSE Append(coords, coords[1])

\* doubled signed area of a closed ring (shoelace)
RECURSIVE ShoelaceFrom(_, _)
ShoelaceFrom(ring, i) ==
    IF i >= Len(ring) THEN 0
    ELSE ring[i][1] * ring[i + 1][2] - ring[i + 1][1] * ring[i][2]
         + ShoelaceFrom(ring, i + 1)

SignedArea2(coords) == ShoelaceFrom(ExteriorCoords(coords), 1)

\* poly.area, doubled: in 1/32 m^2
Area2(coords) == Abs(SignedArea2(coords))

\* poly.is_valid and not poly.is_empty, for rings without self-crossings:
\* such a ring is a valid polygon exactly when it encloses area
IsValidPoly(coords) == Len(coords) >= 3 /\ Area2(coords) # 0

\* three times the centroid of the polygon (exact for triangles and
\* rectangles on the half-metre grid).  A ring without area has the
\* centroid of its boundary line: the length-weighted mean of the segment
\* midpoints (segment lengths are |dx| + |dy| for axis-parallel segments).
RECURSIVE CentroidSum(_, _, _)
CentroidSum(ring, i, k) ==
    IF i >= Len(ring) THEN 0
    ELSE (ring[i][k] + ring[i + 1][k])
         * (ring[i][1] * ring[i + 1][2] - ring[i + 1][1] * ring[i][2])
         + CentroidSum(ring, i + 1, k)

RECURSIVE LineSum(_, _, _)
LineSum(ring, i, k) ==
    IF i >= Len(ring) THEN 0
    ELSE LET len == Abs(ring[i + 1][1] - ring[i][1]) + Abs(ring[i + 1][2] - ring[i][2])
         IN  (IF k = 0 THEN 2 * len ELSE len * (ring[i][k] + ring[i + 1][k]))
             + LineSum(ring, i + 1, k)

Centroid3(coords) ==
    LET ring == ExteriorCoords(coords)
        s == ShoelaceFrom(ring, 1)
    IN  IF s # 0
        THEN <<FloorDiv(CentroidSum(ring, 1, 1) * (IF s < 0 THEN -1 ELSE 1), Abs(s)),
               FloorDiv(CentroidSum(ring, 1, 2) * (IF s < 0 THEN -1 ELSE 1), Abs(s))>>
        ELSE <<FloorDiv(3 * LineSum(ring, 1, 1), LineSum(ring, 1, 0)),
               FloorDiv(3 * LineSum(ring, 1, 2), LineSum(ring, 1, 0))>>

\* squared distance of point p to segment a-b as a fraction
SegDist2(p, a, b) ==
    LET dx == b[1] - a[1]
        dy == b[2] - a[2]
        len2 == dx * dx + dy * dy
        dot == (p[1] - a[1]) * dx + (p[2] - a[2]) * dy
        cross == (p[1] - a[1]) * dy - (p[2] - a[2]) * dx
    IN  IF len2 = 0 \/ dot <= 0
        THEN <<(p[1] - a[1]) * (p[1] - a[1]) + (p[2] - a[2]) * (p[2] - a[2]), 1>>
        ELSE IF dot >= len2
        THEN <<(p[1] - b[1]) * (p[1] - b[1]) + (p[2] - b[2]) * (p[2] - b[2]), 1>>
        ELSE IF dx = 0 \/ dy = 0
        THEN <<(cross \div (Abs(dx) + Abs(dy))) * (cross \div (Abs(dx) + Abs(dy))), 1>>
        ELSE <<cross * cross, len2>>

\* is p strictly inside the ring (even-odd ray casting)
RECURSIVE Crossings(_, _, _)
Crossings(ring, p, i) ==
    IF i >= Len(ring) THEN 0
    ELSE LET a == ring[i]
             b == ring[i + 1]
             hit == /\ (a[2] > p[2]) # (b[2] > p[2])
                    /\ IF b[2] > a[2]
                       THEN (p[1] - a[1]) * (b[2] - a[2]) < (b[1] - a[1]) * (p[2] - a[2])
                       ELSE (p[1] - a[1]) * (b[2] - a[2]) > (b[1] - a[1]) * (p[2] - a[2])
         IN  (IF hit THEN 1 ELSE 0) + Crossings(ring, p, i + 1)

Inside(coords, p) == Crossings(ExteriorCoords(coords), p, 1) % 2 = 1

RECURSIVE BoundaryDist2(_, _, _)
BoundaryDist2(ring, p, i) ==
    IF i = Len(ring) - 1 THEN SegDist2(p, ring[i], ring[i + 1])
    ELSE FracMin(SegDist2(p, ring[i], ring[i + 1]), BoundaryDist2(ring, p, i + 1))

\* poly.distance(Point(p)), squared: 0 inside the polygon, else the distance
\* to its boundary
PolyDist2(coords, p) ==
    IF Inside(coords, p) THEN <<0, 1>>
    ELSE BoundaryDist2(ExteriorCoords(coords), p, 1)

\* a function on 1..n as an explicit list
List(f) == SubSeq(f, 1, Len(f))

\* F applied to the value of v, with v evaluated once
Let(v, F(_)) == CHOOSE r \in {F(x) : x \in {v}} : TRUE

\* stable sort of the indices 1..n by a strict order on the items
\* (list.sort is stable): the k-th index of the result
SortedIndex(n, Before(_, _), k) ==
    CHOOSE i \in 1..n :
        Cardinality({j \in 1..n : Before(j, i) \/ (~Before(i, j) /\ j < i)}) = k - 1

\* ------------------------------------------------ coordinate transforms
\* Planar arguments of the transforms are in twelfths of a metre (a third of
\* a quarter metre), the resolution of centroids.  1e8 / (12 * K_lat) is
\* reduced by 160 to keep the products within 32-bit integers.
E8_PER_DEG_160 == 625000

\* math.cos(math.radians(venue_lat)) as a fraction <<num, den>>
CosLat(venue_lat) == IF venue_lat = 60 THEN <<1, 2>> ELSE <<1, 1>>

meter_to_geo_point(x, y, origin_x, origin_y, venue_lat) ==
    LET dx == x - origin_x
        dy == y - origin_y
        k12 == (12 * METERS_PER_DEG_LAT) \div 160
        c == CosLat(venue_lat)
    IN  <<RoundHalfEven(dy * E8_PER_DEG_160, k12),
          RoundHalfEven(dx * E8_PER_DEG_160 * c[2], k12 * c[1])>>

meters_to_geo(coords, origin_x, origin_y, venue_lat) ==
    List([i \in 1..Len(coords) |->
            meter_to_geo_point(3 * coords[i][1], 3 * coords[i][2],
                               3 * origin_x, 3 * origin_y, venue_lat)])

\* The inverse, reported at the quarter-metre resolution of the planar
\* frame (the residue of the 1e-8 degree rounding is below 0.6 mm).
geo_to_meters(geo_coords, origin_x, origin_y, venue_lat) ==
    LET k12 == (12 * METERS_PER_DEG_LAT) \div 160
        c == CosLat(venue_lat)
    IN  List([i \in 1..Len(geo_coords) |->
                <<origin_x + RoundHalfEven(geo_coords[i][2] * k12 * c[1],
                                           3 * E8_PER_DEG_160 * c[2]),
                  origin_y + RoundHalfEven(geo_coords[i][1] * k12,
                                           3 * E8_PER_DEG_160)>>])

\* ------------------------------------------------------- classification
\* thresholds in m^2
ROOM_TYPE_BY_AREA ==
    << <<6, "closet">>, <<15, "room">>, <<30, "corridor">>,
       <<60, "room">>, <<120, "lobby">> >>

ZONE_PRIORITY ==
    [entrance |-> 9, lobby |-> 8, corridor |-> 6, stairwell |-> 5,
     room |-> 4, custom |-> 3, closet |-> 2]

\* area2 is the doubled area in 1/32 m^2: area < threshold m^2
RECURSIVE ClassifyFrom(_, _)
ClassifyFrom(area2, k) ==
    IF k > Len(ROOM_TYPE_BY_AREA) THEN "lobby"
    ELSE IF area2 < 32 * ROOM_TYPE_BY_AREA[k][1] THEN ROOM_TYPE_BY_AREA[k][2]
    ELSE ClassifyFrom(area2, k + 1)

\* mutant of classify_room: area <= threshold
RECURSIVE ClassifyFromInclusive(_, _)
ClassifyFromInclusive(area2, k) ==
    IF k > Len(ROOM_TYPE_BY_AREA) THEN "lobby"
    ELSE IF area2 <= 32 * ROOM_TYPE_BY_AREA[k][1] THEN ROOM_TYPE_BY_AREA[k][2]
    ELSE ClassifyFromInclusive(area2, k + 1)

classify_room_inclusive(area2) == ClassifyFromInclusive(area2, 1)

classify_room(area2) == ClassifyFrom(area2, 1)

\* ZONE_PRIORITY.get(zone_type, 3)
ZonePriorityGet(zone_type) ==
    IF zone_type \in DOMAIN ZONE_PRIORITY THEN ZONE_PRIORITY[zone_type]
    ELSE DEFAULT_PRIORITY

\* round(area, 2) in hundredths of a m^2; area = area2 / 32
RoundArea(area2) == RoundHalfEven(area2 * 25, 8)

\* ----------------------------------------------------------- perch points
\* positions in twelfths of a metre
\* the edge midpoints of the ring `coords` (without its closing point)
WallMidpoints(coords) ==
    LET n == Len(coords)
    IN  List([i \in 1..n |->
                LET j == (i % n) + 1
                IN  <<(3 * (coords[i][1] + coords[j][1])) \div 2,
                      (3 * (coords[i][2] + coords[j][2])) \div 2>>])

\* wall_midpoints.sort(key = -distance to the centroid)[:count]
FarthestFirst(wall_midpoints, c3, count) ==
    Let(List([i \in 1..Len(wall_midpoints) |->
                (wall_midpoints[i][1] - c3[1]) * (wall_midpoints[i][1] - c3[1])
                + (wall_midpoints[i][2] - c3[2]) * (wall_midpoints[i][2] - c3[2])]),
        LAMBDA d2 :
            List([k \in 1..Min2(count, Len(wall_midpoints)) |->
                    wall_midpoints[SortedIndex(Len(wall_midpoints),
                                               LAMBDA a, b : d2[a] > d2[b], k)]]))

generate_perch_positions(poly, count) ==
    Let(ExteriorCoords(poly), LAMBDA ring :
        IF Len(ring) - 1 < 2 THEN <<Centroid3(poly)>>
        ELSE Let(WallMidpoints(SubSeq(ring, 1, Len(ring) - 1)), LAMBDA wall_midpoints :
                 Let(Centroid3(poly), LAMBDA c3 :
                     FarthestFirst(wall_midpoints, c3, count))))

\* mutant of NumPerch: round(area / 15) instead of int(area / 15)
NumPerchRounded(area_sq_m) ==
    Max2(PERCH_MIN, Min2(PERCH_MAX, RoundHalfEven(area_sq_m, PERCH_AREA_100)))

\* max(1, min(4, int(zone.area_sq_m / 15)))
NumPerch(area_sq_m) ==
    Max2(PERCH_MIN, Min2(PERCH_MAX, area_sq_m \div PERCH_AREA_100))

\* ---------------------------------------------------------------- assembly
\* uuid.uuid4(): the value returned by the call number `calls` of the process
uuid4(calls) == calls

EmptyResult == [zones |-> <<>>, connections |-> <<>>, perch_points |-> <<>>]

\* the k-th smallest element of a set of integers
KthOf(S, k) == CHOOSE i \in S : Cardinality({j \in S : j < i}) = k - 1

\* origin_x, origin_y: the midpoint of the bounding box
Origin(room_polygons) ==
    LET all_coords == UNION {{ExteriorCoords(room_polygons[i])[j] :
                                 j \in 1..Len(ExteriorCoords(room_polygons[i]))} :
                             i \in 1..Len(room_polygons)}
        xs == {c[1] : c \in all_coords}
        ys == {c[2] : c \in all_coords}
    IN  <<(SetMin(xs) + SetMax(xs)) \div 2, (SetMin(ys) + SetMax(ys)) \div 2>>

\* mutant of MakeZone: the zone's id is its detection index, not a uuid4
MakeZoneIndexId(poly, i, origin, venue_lat, floor_level, zone_id) ==
    LET area2 == Area2(poly)
        zone_type == classify_room(area2)
        c3 == Centroid3(poly)
        cen == meter_to_geo_point(c3[1], c3[2], 3 * origin[1], 3 * origin[2], venue_lat)
    IN  [id |-> i,
         name |-> <<"Zone", i, zone_type>>,
         type |-> zone_type,
         environment |-> "indoor",
         floor_level |-> floor_level,
         polygon |-> meters_to_geo(ExteriorCoords(poly), origin[1], origin[2], venue_lat),
         centroid_lat |-> cen[1],
         centroid_lon |-> cen[2],
         area_sq_m |-> RoundArea(area2),
         tier_requirement |-> "tier_1",
         coverage_priority |-> ZonePriorityGet(zone_type)]

\* lines 453-481: one IngestedZone per polygon, in detection order
MakeZone(poly, i, origin, venue_lat, floor_level, zone_id) ==
    LET area2 == Area2(poly)
        zone_type == classify_room(area2)
        environment == IF floor_level >= 0 THEN "indoor" ELSE "indoor"
        c3 == Centroid3(poly)
        cen == meter_to_geo_point(c3[1], c3[2], 3 * origin[1], 3 * origin[2], venue_lat)
    IN  [id |-> zone_id,
         name |-> <<"Zone", i, zone_type>>,
         type |-> zone_type,
         environment |-> environment,
         floor_level |-> floor_level,
         polygon |-> meters_to_geo(ExteriorCoords(poly), origin[1], origin[2], venue_lat),
         centroid_lat |-> cen[1],
         centroid_lon |-> cen[2],
         area_sq_m |-> RoundArea(area2),
         tier_requirement |-> IF environment = "indoor" THEN "tier_1" ELSE "either",
         coverage_priority |-> ZonePriorityGet(zone_type)]

\* list(zone_map.values()): a dict keeps the position of the first insertion
\* of a key and the value of the last
ZoneMapValues(zones) ==
    LET n == Len(zones)
        firsts == {i \in 1..n : \A j \in 1..(i - 1) : zones[j].id # zones[i].id}
        last(i) == SetMax({j \in 1..n : zones[j].id = zones[i].id})
    IN  List([k \in 1..Cardinality(firsts) |-> zones[last(KthOf(firsts, k))]])

\* mutant of NearbySorted: poly.distance(dp) <= 1.5
NearbySortedInclusive(zone_polys, door_pos) ==
    Let(List([z \in 1..Len(zone_polys) |-> PolyDist2(zone_polys[z][2], door_pos)]),
        LAMBDA dist :
            Let({z \in 1..Len(zone_polys) :
                    ~FracLess(<<DOOR_REACH_4 * DOOR_REACH_4, 1>>, dist[z])},
                LAMBDA near :
                    Let(List([a \in 1..Cardinality(near) |-> KthOf(near, a)]),
                        LAMBDA nearby :
                            List([k \in 1..Len(nearby) |->
                                    nearby[SortedIndex(Len(nearby),
                                        LAMBDA a, b : FracLess(dist[nearby[a]],
                                                               dist[nearby[b]]),
                                        k)]]))))

\* lines 489-492: the indices (into zone_polys) of the zones near the door,
\* sorted by distance (stable)
NearbySorted(zone_polys, door_pos) ==
    Let(List([z \in 1..Len(zone_polys) |-> PolyDist2(zone_polys[z][2], door_pos)]),
        LAMBDA dist :
            Let({z \in 1..Len(zone_polys) :
                    FracLess(dist[z], <<DOOR_REACH_4 * DOOR_REACH_4, 1>>)},
                LAMBDA near :
                    Let(List([a \in 1..Cardinality(near) |-> KthOf(near, a)]),
                        LAMBDA nearby :
                            List([k \in 1..Len(nearby) |->
                                    nearby[SortedIndex(Len(nearby),
                                        LAMBDA a, b : FracLess(dist[nearby[a]],
                                                               dist[nearby[b]]),
                                        k)]]))))

\* mutant of DoorConnections: z_a, z_b = nearby[0][0], nearby[0][0]
RECURSIVE DoorConnectionsSameZone(_, _, _, _, _, _)
DoorConnectionsSameZone(zone_polys, door_positions, k, origin, venue_lat, calls) ==
    IF k > Len(door_positions) THEN <<>>
    ELSE Let(NearbySorted(zone_polys, door_positions[k]), LAMBDA nearby :
             IF Len(nearby) >= 2
             THEN <<[id |-> uuid4(calls),
                     from_zone_id |-> zone_polys[nearby[1]][1].id,
                     to_zone_id |-> zone_polys[nearby[1]][1].id,
                     connection_type |-> "door",
                     position |-> meter_to_geo_point(3 * door_positions[k][1],
                                      3 * door_positions[k][2],
                                      3 * origin[1], 3 * origin[2], venue_lat)]>>
                  \o DoorConnectionsSameZone(zone_polys, door_positions, k + 1, origin,
                                             venue_lat, calls + 1)
             ELSE DoorConnectionsSameZone(zone_polys, door_positions, k + 1, origin,
                                          venue_lat, calls))

\* lines 486-503: door connections, from door number k on; `calls` counts
\* the uuid4 calls made so far
RECURSIVE DoorConnections(_, _, _, _, _, _)
DoorConnections(zone_polys, door_positions, k, origin, venue_lat, calls) ==
    IF k > Len(door_positions) THEN <<>>
    ELSE Let(NearbySorted(zone_polys, door_positions[k]), LAMBDA nearby :
             IF Len(nearby) >= 2
             THEN <<[id |-> uuid4(calls),
                     from_zone_id |-> zone_polys[nearby[1]][1].id,
                     to_zone_id |-> zone_polys[nearby[2]][1].id,
                     connection_type |-> "door",
                     position |-> meter_to_geo_point(3 * door_positions[k][1],
                                      3 * door_positions[k][2],
                                      3 * origin[1], 3 * origin[2], venue_lat)]>>
                  \o DoorConnections(zone_polys, door_positions, k + 1, origin,
                                     venue_lat, calls + 1)
             ELSE DoorConnections(zone_polys, door_positions, k + 1, origin,
                                  venue_lat, calls))

\* mutant of AdjacencyConnections: every pair of zones is connected
AdjacencyAllPairs(zone_list, calls) ==
    LET n == Len(zone_list)
        codes == {a * (n + 1) + b : a \in 1..n, b \in 1..n} \cap
                 {c \in 1..((n + 1) * (n + 1)) : c \div (n + 1) < c % (n + 1)}
    IN  List([k \in 1..Cardinality(codes) |->
            [id |-> uuid4(calls + k - 1),
             from_zone_id |-> zone_list[KthOf(codes, k) \div (n + 1)].id,
             to_zone_id |-> zone_list[KthOf(codes, k) % (n + 1)].id,
             connection_type |-> "adjacency",
             position |-> None]])

\* mutant of AdjacencyConnections: to_zone_id takes a new uuid4 instead of
\* the next zone's id
AdjacencyFreshTo(zone_list, calls) ==
    List([i \in 1..(Len(zone_list) - 1) |->
            [id |-> uuid4(calls + i - 1),
             from_zone_id |-> zone_list[i].id,
             to_zone_id |-> uuid4(calls + Len(zone_list) + i),
             connection_type |-> "adjacency",
             position |-> None]])

\* mutant of AdjacencyConnections: the chain stops one zone early
AdjacencyShortChain(zone_list, calls) ==
    List([i \in 1..(Len(zone_list) - 2) |->
            [id |-> uuid4(calls + i - 1),
             from_zone_id |-> zone_list[i].id,
             to_zone_id |-> zone_list[i + 1].id,
             connection_type |-> "adjacency",
             position |-> None]])

\* lines 505-514: the adjacency chain
AdjacencyConnections(zone_list, calls) ==
    List([i \in 1..(Len(zone_list) - 1) |->
            [id |-> uuid4(calls + i - 1),
             from_zone_id |-> zone_list[i].id,
             to_zone_id |-> zone_list[i + 1].id,
             connection_type |-> "adjacency",
             position |-> None]])

\* mutant of ZonePerchPoints: a perch point names itself as its zone, with
\* the tier of an outdoor zone
ZonePerchPointsOwnId(zone, poly, origin, venue_lat, calls) ==
    Let(generate_perch_positions(poly, NumPerch(zone.area_sq_m)),
        LAMBDA perch_positions :
        List([k \in 1..Len(perch_positions) |->
            LET pp == meter_to_geo_point(perch_positions[k][1], perch_positions[k][2],
                          3 * origin[1], 3 * origin[2], venue_lat)
                surface == IF zone.environment = "indoor" THEN "wall" ELSE "ledge"
            IN  [id |-> uuid4(calls + k - 1),
                 zone_id |-> uuid4(calls + k - 1),
                 surface_class |-> surface,
                 surface_orientation |-> IF surface = "wall" THEN "vertical"
                                         ELSE "horizontal",
                 tier_required |-> "either",
                 position_lat |-> pp[1],
                 position_lon |-> pp[2],
                 height_m |-> IF zone.environment = "indoor" THEN INDOOR_HEIGHT_10
                              ELSE OUTDOOR_HEIGHT_10,
                 wall_normal |-> None,
                 coverage_value |-> RoundHalfEven(360 + 30 * zone.coverage_priority, 9)]]))

\* lines 524-542: the perch points of one zone
ZonePerchPoints(zone, poly, origin, venue_lat, calls) ==
    Let(generate_perch_positions(poly, NumPerch(zone.area_sq_m)),
        LAMBDA perch_positions :
        List([k \in 1..Len(perch_positions) |->
            LET pp == meter_to_geo_point(perch_positions[k][1], perch_positions[k][2],
                          3 * origin[1], 3 * origin[2], venue_lat)
                surface == IF zone.environment = "indoor" THEN "wall" ELSE "ledge"
            IN  [id |-> uuid4(calls + k - 1),
                 zone_id |-> zone.id,
                 surface_class |-> surface,
                 surface_orientation |-> IF surface = "wall" THEN "vertical"
                                         ELSE "horizontal",
                 tier_required |-> zone.tier_requirement,
                 position_lat |-> pp[1],
                 position_lon |-> pp[2],
                 height_m |-> IF zone.environment = "indoor" THEN INDOOR_HEIGHT_10
                              ELSE OUTDOOR_HEIGHT_10,
                 wall_normal |-> None,
                 coverage_value |-> RoundHalfEven(360 + 30 * zone.coverage_priority, 9)]]))

\* lines 516-542: perch points zone by zone, from zone number k on
RECURSIVE PerchPoints(_, _, _, _, _, _)
PerchPoints(zone_list, zone_polys, k, origin, venue_lat, calls) ==
    IF k > Len(zone_list) THEN <<>>
    ELSE Let(SelectSeq(zone_polys, LAMBDA zp : zp[1].id = zone_list[k].id),
             LAMBDA zone_poly :
             IF zone_poly = <<>>
             THEN PerchPoints(zone_list, zone_polys, k + 1, origin, venue_lat, calls)
             ELSE Let(ZonePerchPoints(zone_list[k], zone_poly[1][2], origin,
                                      venue_lat, calls),
                      LAMBDA pts :
                          pts \o PerchPoints(zone_list, zone_polys, k + 1, origin,
                                             venue_lat, calls + Len(pts))))

\* lines 483-484: each zone with the polygon of its stored geographic ring
ZonePolys(zone_list, origin, venue_lat) ==
    List([k \in 1..Len(zone_list) |->
            <<zone_list[k],
              geo_to_meters(zone_list[k].polygon, origin[1], origin[2], venue_lat)>>])

\* lines 486-542, once the zones exist
Connect(zones, zone_list, zone_polys, door_positions, origin, venue_lat, calls) ==
    Let(DoorConnections(zone_polys, door_positions, 1, origin, venue_lat, calls),
        LAMBDA doors :
        Let(IF doors = <<>> /\ Len(zone_list) > 1
            THEN AdjacencyConnections(zone_list, calls)
            ELSE doors,
            LAMBDA connections :
                [zones |-> zones,
                 connections |-> connections,
                 perch_points |-> PerchPoints(zone_list, zone_polys, 1, origin,
                                      venue_lat, calls + Len(connections))]))

\* lines 443-544: _assemble for at least one room polygon
AssembleRooms(room_polygons, door_positions, venue_lat, floor_level, calls) ==
    Let(Origin(room_polygons), LAMBDA origin :
        Let(List([i \in 1..Len(room_polygons) |->
                    MakeZone(room_polygons[i], i, origin, venue_lat, floor_level,
                             uuid4(calls + i - 1))]),
            LAMBDA zones :
                Let(ZoneMapValues(zones), LAMBDA zone_list :
                    Let(ZonePolys(zone_list, origin, venue_lat), LAMBDA zone_polys :
                        Connect(zones, zone_list, zone_polys, door_positions, origin,
                                venue_lat, calls + Len(room_polygons))))))

\* mutant of assemble: without polygons, one default perch point at the anchor
assemble_default_perch(room_polygons, door_positions, venue_lat, floor_level, calls) ==
    IF room_polygons = <<>>
    THEN [EmptyResult EXCEPT !.perch_points =
             <<[id |-> uuid4(calls), zone_id |-> uuid4(calls),
                surface_class |-> "wall", surface_orientation |-> "vertical",
                tier_required |-> "tier_1", position_lat |-> 0, position_lon |-> 0,
                height_m |-> INDOOR_HEIGHT_10, wall_normal |-> None,
                coverage_value |-> 50]>>]
    ELSE AssembleRooms(room_polygons, door_positions, venue_lat, floor_level, calls)

\* _assemble; wall_segments is not read by it.  `calls` is the number of
\* uuid4 calls made before.
assemble(room_polygons, door_positions, venue_lat, floor_level, calls) ==
    IF room_polygons = <<>> THEN EmptyResult
    ELSE AssembleRooms(room_polygons, door_positions, venue_lat, floor_level, calls)

\* the uuid4 calls one _assemble makes
UuidCalls(res) == Len(res.zones) + Len(res.connections) + Len(res.perch_points)

\* ------------------------------------------------------------------ inputs
\* Room polygons are coordinate lists in quarter metres with vertices on the
\* half-metre grid.
\* the rectangle of w x h metres whose lower left corner is (x, y) metres
Rect(x, y, w, h) ==
    <<<<4 * x, 4 * y>>, <<4 * (x + w), 4 * y>>,
      <<4 * (x + w), 4 * (y + h)>>, <<4 * x, 4 * (y + h)>>>>

\* the right triangle with legs of w and h metres at the origin
Tri(w, h) == <<<<0, 0>>, <<4 * w, 0>>, <<0, 4 * h>>>>

Closet5 == <<<<0, 0>>, <<8, 0>>, <<8, 10>>, <<0, 10>>>>     \* 2 x 2.5 m

Room10 == Rect(3, 0, 2, 5)       \* 1 m right of the closet

Corridor25 == Rect(0, 4, 5, 5)   \* 1.5 m above the closet, overlapping the room

Triangle60 == Tri(12, 10)        \* 60 m^2, covering the closet

Collinear == <<<<0, 0>>, <<8, 0>>, <<16, 0>>>>              \* a closed polyline without area

LShape75 == <<<<0, 0>>, <<40, 0>>, <<40, 20>>, <<20, 20>>, <<20, 40>>, <<0, 40>>>>

\* the rooms of the pipeline specification
RoomPolygons == {Closet5, Room10, Triangle60}

\* the rooms of the plan specification: rooms that are near each other,
\* overlap or repeat
PlanPolygons == {Closet5, Room10, Corridor25, Triangle60}

\* Door positions: between closet and room (0.5 m from each, inside the
\* triangle); on the closet's upper wall (exactly 1.5 m from the corridor).
DoorPositions == {<<10, 4>>, <<4, 10>>}

\* the single rooms of the shapes specification: areas on and around every
\* threshold, and rings of 3, 4 and 6 edges
ShapePolygons ==
    {Closet5, Rect(0, 0, 2, 3), Rect(0, 0, 2, 5), Rect(0, 0, 3, 5), Rect(0, 0, 4, 5),
     Rect(0, 0, 5, 5), Rect(0, 0, 5, 6), Rect(0, 0, 5, 10), Rect(0, 0, 6, 10),
     Rect(0, 0, 10, 10), Rect(0, 0, 10, 12), Rect(0, 0, 10, 15), Rect(0, 0, 10, 20),
     Tri(3, 4), Tri(6, 10), Triangle60, Tri(20, 20), LShape75, Collinear}

\* the calls of ingest: <<fmt, venue_lat, floor_level, page_number>>
Calls == {<<"dxf", 0, 0, NoPage>>, <<"image", 60, 2, NoPage>>,
          <<"pdf", 60, 2, 1>>, <<"pdf", 0, 2, NoPage>>,
          <<"pdf", 0, 0, 2>>, <<"pdf", 60, 0, NoPage>>}

\* -------------------------------------------------------------------- state
VARIABLES
    fmt,             \* ingest argument
    venue_lat,       \* ingest argument (whole degrees)
    floor_level,     \* ingest argument
    page_number,     \* ingest argument: NoPage or a 1-based page
    pc,              \* "start", "scan", "paged", "done", "raised"
    images,          \* number of page images convert_from_path returned
    i,               \* 0-based index of the page in the multi-page loop
    room_polygons,   \* the extractor's list for the current page or drawing
    door_positions,  \* the extractor's list for the current page or drawing
    page_result,     \* what the last _assemble returned
    combined,        \* the combined result of the multi-page loop
    result,          \* what ingest returned (meaningful when pc = "done")
    error,           \* the message ingest raised with (pc = "raised")
    calls,           \* uuid4 calls made so far
    op_args,         \* the arguments of a call of one of the other operations
    op_result,       \* what that call returned
    ep,              \* position of the ingest endpoint (api/venues.py)
    tmp_file,        \* the endpoint's temporary copy: "none", "open", "closed", "deleted"
    job,             \* the endpoint's IngestionJob row as the session holds it
    response,        \* how the endpoint ends: the body it returns or the error it raises
    db,              \* the session's pending rows and the committed rows
    exc,             \* the exception the endpoint's try block raised
    store,           \* the rows of the synced tables (services/sync_service.py)
    workstations,    \* per workstation: whether last_sync_at, last_seen_at are set
    recorded,        \* the cloud version the observing workstation recorded last
    changed          \* history: the customer's rows other workstations' pushes
                     \* inserted or updated since that version was recorded

\* the state of one call of ingest
ingest_vars == <<fmt, venue_lat, floor_level, page_number, pc, images, i,
                 room_polygons, door_positions, page_result, combined, result, error,
                 calls>>

\* the state outside the call of ingest
endpoint_vars == <<ep, tmp_file, job, response, db, exc>>

sync_vars == <<store, workstations, recorded, changed>>

outside == <<op_args, op_result, endpoint_vars, sync_vars>>

\* the workstations and the customer each belongs to
WorkstationOwner == [w1 |-> "A", w2 |-> "A", w3 |-> "B"]

\* no delta sync request was made: no rows, no workstation seen
NoSync ==
    /\ store = {}
    /\ workstations = [w \in DOMAIN WorkstationOwner |->
                          [last_sync_at |-> FALSE, last_seen_at |-> FALSE]]
    /\ recorded = 0
    /\ changed = {}

\* the session and the store before a call of the endpoint: nothing pending
\* in the open transaction (rows added, the venue changed, the job row
\* inserted), no rows of this call, the venue at its first cloud_version
EmptyDb ==
    [pending |-> [zones |-> 0, connections |-> 0, perch_points |-> 0, venue |-> FALSE,
                  job |-> FALSE],
     zones |-> 0, connections |-> 0, perch_points |-> 0,
     floor_plan_blob_key |-> None, cloud_version |-> 1, job |-> None]

vars == <<ingest_vars, outside>>

args == <<fmt, venue_lat, floor_level, page_number>>

Init ==
    /\ \E call \in Calls :
        /\ fmt = call[1]
        /\ venue_lat = call[2]
        /\ floor_level = call[3]
        /\ page_number = call[4]
    /\ pc = "start"
    /\ images = 0
    /\ i = 0
    /\ room_polygons = <<>>
    /\ door_positions = <<>>
    /\ page_result = EmptyResult
    /\ combined = EmptyResult
    /\ result = EmptyResult
    /\ error = NoError
    /\ calls = 0
    /\ op_args = None
    /\ op_result = None
    /\ ep = "ingest"
    /\ tmp_file = "none"
    /\ job = None
    /\ response = None
    /\ db = EmptyDb
    /\ exc = NoError
    /\ NoSync

\* mutant of MultiPage: the loop also runs for a document of one page
MultiPageFromOne == fmt = "pdf" /\ page_number = NoPage /\ images >= 1

\* _ingest_pdf reached its multi-page loop (lines 267-280)
MultiPage == fmt = "pdf" /\ page_number = NoPage /\ images > 1

\* ingest -> _ingest_dxf: the drawing is read and its entities are scanned
IngestDxf ==
    /\ pc = "start" /\ fmt = "dxf"
    /\ pc' = "scan"
    /\ UNCHANGED <<outside, args, images, i, room_polygons, door_positions, page_result,
                   combined, result, error, calls>>

\* mutant of IngestImage: an image that cannot be read gives the empty result
IngestImageEmptyOnFailure ==
    /\ pc = "start" /\ fmt = "image"
    /\ \E decoded \in BOOLEAN :
        IF decoded
        THEN pc' = "scan" /\ result' = result
        ELSE pc' = "done" /\ result' = EmptyResult
    /\ UNCHANGED <<outside, args, images, i, room_polygons, door_positions, page_result,
                   combined, error, calls>>

\* ingest -> _ingest_image: cv2.imread returns the image or None
IngestImage ==
    /\ pc = "start" /\ fmt = "image"
    /\ \E decoded \in BOOLEAN :
        IF decoded
        THEN pc' = "scan" /\ error' = error
        ELSE pc' = "raised" /\ error' = "Could not read image"
    /\ UNCHANGED <<outside, args, images, i, room_polygons, door_positions, page_result,
                   combined, result, calls>>

\* ingest -> _ingest_pdf: convert_from_path returns n page images (at most
\* one when a page is selected)
IngestPdf ==
    /\ pc = "start" /\ fmt = "pdf"
    /\ \E n \in 0..(IF page_number # NoPage THEN 1 ELSE MaxPages) :
        /\ images' = n
        /\ IF n = 0
           THEN /\ pc' = "raised"
                /\ error' = IF page_number # NoPage
                            THEN "Could not extract page from PDF"
                            ELSE "Could not extract any pages from PDF"
           ELSE pc' = "scan" /\ error' = error
    /\ UNCHANGED <<outside, args, i, room_polygons, door_positions, page_result, combined,
                   result, calls>>

\* One room polygon of the set `polygons` is appended to room_polygons: a
\* closed polyline or hatch of at least 3 points in a drawing (lines 175-178,
\* 191-202), or a contour whose polygon is valid and not empty in an image
\* (lines 337-340).  At most `max` polygons per document.
ExtractRoomFrom(polygons, max) ==
    /\ pc = "scan"
    /\ Len(combined.zones) + Len(room_polygons) < max
    /\ \E poly \in polygons :
        /\ Len(poly) >= 3
        /\ fmt = "dxf" \/ IsValidPoly(poly)
        /\ room_polygons' = Append(room_polygons, poly)
    /\ UNCHANGED <<outside, args, pc, images, i, door_positions, page_result, combined,
                   result, error, calls>>

\* One door position is appended to door_positions (lines 180-189, 343).
\* At most `max` doors per document (the doors of earlier pages that left
\* no connection are not counted).
ExtractDoorFrom(positions, max) ==
    /\ pc = "scan"
    /\ Len(door_positions) + Len(combined.connections) < max
    /\ \E door_pos \in positions :
        door_positions' = Append(door_positions, door_pos)
    /\ UNCHANGED <<outside, args, pc, images, i, room_polygons, page_result, combined,
                   result, error, calls>>

ExtractRoom == ExtractRoomFrom(RoomPolygons, MaxRooms)

ExtractDoor == ExtractDoorFrom(DoorPositions, MaxDoors)

\* mutant of CurrentFloor: pages counted from 1
CurrentFloorOneBased(base, index) == base + index + 1

\* current_floor = floor_level + i
CurrentFloor(base, index) == base + index

\* f"F{current_floor} {z.name}"
PrefixName(current_floor, name) == <<"F", current_floor>> \o name

\* mutant of Assemble: a page's first zone is chained to the last zone of the
\* pages before it
AssembleCrossPage ==
    /\ pc = "scan"
    /\ \E current_floor \in {IF MultiPage THEN CurrentFloor(floor_level, i)
                              ELSE floor_level} :
       \E res \in {assemble(room_polygons, door_positions, venue_lat, current_floor,
                            calls)} :
       \E renamed \in {[res EXCEPT !.zones =
                          List([k \in 1..Len(res.zones) |->
                                  [res.zones[k] EXCEPT
                                      !.name = PrefixName(current_floor, @)]])]} :
           /\ calls' = calls + UuidCalls(res) + 1
           /\ IF MultiPage
              THEN /\ page_result' = renamed
                   /\ combined' =
                        [zones |-> combined.zones \o renamed.zones,
                         connections |-> combined.connections \o renamed.connections
                             \o (IF combined.zones # <<>> /\ renamed.zones # <<>>
                                 THEN <<[id |-> uuid4(calls + UuidCalls(res)),
                                         from_zone_id |->
                                             combined.zones[Len(combined.zones)].id,
                                         to_zone_id |-> renamed.zones[1].id,
                                         connection_type |-> "adjacency",
                                         position |-> None]>>
                                 ELSE <<>>),
                         perch_points |-> combined.perch_points \o renamed.perch_points]
                   /\ pc' = "paged"
                   /\ result' = result
              ELSE /\ page_result' = res
                   /\ result' = res
                   /\ pc' = "done"
                   /\ combined' = combined
    /\ UNCHANGED <<outside, args, images, i, room_polygons, door_positions, error>>

\* The extraction ends and _assemble runs.  Outside the multi-page loop its
\* result is returned (lines 207, 257, 265, 293); inside the loop the zones
\* are renamed in place and the page is added to combined (lines 269-277).
Assemble ==
    /\ pc = "scan"
    /\ \E current_floor \in {IF MultiPage THEN CurrentFloor(floor_level, i)
                              ELSE floor_level} :
       \E res \in {assemble(room_polygons, door_positions, venue_lat, current_floor,
                            calls)} :
       \E renamed \in {[res EXCEPT !.zones =
                          List([k \in 1..Len(res.zones) |->
                                  [res.zones[k] EXCEPT
                                      !.name = PrefixName(current_floor, @)]])]} :
           /\ calls' = calls + UuidCalls(res)
           /\ IF MultiPage
              THEN /\ page_result' = renamed
                   /\ combined' =
                        [zones |-> combined.zones \o renamed.zones,
                         connections |-> combined.connections \o renamed.connections,
                         perch_points |-> combined.perch_points \o renamed.perch_points]
                   /\ pc' = "paged"
                   /\ result' = result
              ELSE /\ page_result' = res
                   /\ result' = res
                   /\ pc' = "done"
                   /\ combined' = combined
    /\ UNCHANGED <<outside, args, images, i, room_polygons, door_positions, error>>

\* convert_from_path raises (a document poppler cannot render): nothing
\* catches it in _ingest_pdf or ingest
RenderFails ==
    /\ pc = "start" /\ fmt = "pdf"
    /\ pc' = "raised"
    /\ error' = "PDFPageCountError"
    /\ UNCHANGED <<outside, args, images, i, room_polygons, door_positions, page_result,
                   combined, result, calls>>

\* mutant of ProcessImageFails: the pages processed so far are returned
ProcessImageFailsPartial ==
    /\ pc = "scan" /\ fmt # "dxf"
    /\ pc' = "done"
    /\ result' = combined
    /\ UNCHANGED <<outside, args, images, i, room_polygons, door_positions, page_result,
                   combined, error, calls>>

\* an OpenCV call of _process_image raises on the current image: nothing
\* catches it in _process_image, _ingest_pdf, _ingest_image or ingest
ProcessImageFails ==
    /\ pc = "scan" /\ fmt # "dxf"
    /\ pc' = "raised"
    /\ error' = "cv2.error"
    /\ UNCHANGED <<outside, args, images, i, room_polygons, door_positions, page_result,
                   combined, result, calls>>

\* the loop of lines 268-277 goes on to the next page image
NextPage ==
    /\ pc = "paged" /\ i + 1 < images
    /\ i' = i + 1
    /\ room_polygons' = <<>>
    /\ door_positions' = <<>>
    /\ pc' = "scan"
    /\ UNCHANGED <<outside, args, images, page_result, combined, result, error, calls>>

\* line 280: return combined
ReturnCombined ==
    /\ pc = "paged" /\ i + 1 = images
    /\ result' = combined
    /\ pc' = "done"
    /\ UNCHANGED <<outside, args, images, i, room_polygons, door_positions, page_result,
                   combined, error, calls>>

Next ==
    \/ IngestDxf
    \/ IngestImage
    \/ IngestPdf
    \/ RenderFails
    \/ ProcessImageFails
    \/ ExtractRoom
    \/ ExtractDoor
    \/ Assemble
    \/ NextPage
    \/ ReturnCombined

Spec == Init /\ [][Next]_vars

\* --------------------------------------------------- plan specification
\* One drawing or image with up to MaxPlanRooms rooms and MaxPlanDoors doors.
InitPlan == Init /\ fmt \in {"dxf", "image"}

ExtractPlanRoom == ExtractRoomFrom(PlanPolygons, MaxPlanRooms)

ExtractPlanDoor == ExtractDoorFrom(DoorPositions, MaxPlanDoors)

NextPlan ==
    \/ IngestDxf
    \/ IngestImage
    \/ ExtractPlanRoom
    \/ ExtractPlanDoor
    \/ Assemble

SpecPlan == InitPlan /\ [][NextPlan]_vars

\* ------------------------------------------------- shapes specification
\* One drawing or image with up to MaxShapes rooms of any shape and no doors.
InitShapes == Init /\ fmt \in {"dxf", "image"}

ExtractShape == ExtractRoomFrom(ShapePolygons, MaxShapes)

NextShapes ==
    \/ IngestDxf
    \/ IngestImage
    \/ ExtractShape
    \/ Assemble

SpecShapes == InitShapes /\ [][NextShapes]_vars

\* ============================================================ detect_format
\* Texts (file paths, file contents) are lists of characters; "NL" is the
\* line feed.
HEADER_BYTES == 16

UPPER == <<"A", "B", "C", "D", "E", "F", "G", "H", "I", "J", "K", "L", "M", "N", "O", "P", "Q", "R", "S", "T", "U", "V", "W", "X", "Y", "Z">>

LOWER == <<"a", "b", "c", "d", "e", "f", "g", "h", "i", "j", "k", "l", "m", "n", "o", "p", "q", "r", "s", "t", "u", "v", "w", "x", "y", "z">>

\* str.lower() on one character
LowerChar(c) ==
    IF \E k \in 1..Len(UPPER) : UPPER[k] = c
    THEN LOWER[CHOOSE k \in 1..Len(UPPER) : UPPER[k] = c]
    ELSE c

\* str.lower()
Lower(text) == List([k \in 1..Len(text) |-> LowerChar(text[k])])

\* Path(file_path).name: the final component of the path
PathName(file_path) ==
    LET slashes == {k \in 1..Len(file_path) : file_path[k] = "/"}
    IN  IF slashes = {} THEN file_path
        ELSE SubSeq(file_path, SetMax(slashes) + 1, Len(file_path))

\* Path(file_path).suffix: the name from its last dot on, unless that dot is
\* the first or the last character of the name
PathSuffix(file_path) ==
    LET name == PathName(file_path)
        dots == {k \in 1..Len(name) : name[k] = "."}
    IN  IF dots = {} THEN <<>>
        ELSE IF 1 < SetMax(dots) /\ SetMax(dots) < Len(name)
             THEN SubSeq(name, SetMax(dots), Len(name))
             ELSE <<>>

\* marker in header (bytes)
Contains(header, marker) ==
    \E k \in 1..(Len(header) - Len(marker) + 1) :
        SubSeq(header, k, k + Len(marker) - 1) = marker

\* f.read(16)
ReadHeader(content) == SubSeq(content, 1, Min2(HEADER_BYTES, Len(content)))

\* mutant of detect_format: the first bytes decide before the extension
detect_format_bytes_first(file_path, content) ==
    LET ext == Lower(PathSuffix(file_path))
        header == ReadHeader(content)
    IN  IF Contains(header, <<"S", "E", "C", "T", "I", "O", "N">>) \/ Contains(header, <<"A", "u", "t", "o", "C", "A", "D">>) THEN "dxf"
        ELSE IF SubSeq(header, 1, Min2(4, Len(header))) = <<"%", "P", "D", "F">> THEN "pdf"
        ELSE IF ext \in {<<".", "d", "x", "f">>, <<".", "d", "w", "g">>} THEN "dxf"
        ELSE IF ext = <<".", "p", "d", "f">> THEN "pdf"
        ELSE "image"

\* lines 85-100
detect_format(file_path, content) ==
    LET ext == Lower(PathSuffix(file_path))
        header == ReadHeader(content)
    IN  IF ext \in {<<".", "d", "x", "f">>, <<".", "d", "w", "g">>} THEN "dxf"
        ELSE IF ext = <<".", "p", "d", "f">> THEN "pdf"
        ELSE IF ext \in {<<".", "p", "n", "g">>, <<".", "j", "p", "g">>, <<".", "j", "p", "e", "g">>,
                         <<".", "t", "i", "f", "f">>, <<".", "b", "m", "p">>}
        THEN "image"
        ELSE IF Contains(header, <<"S", "E", "C", "T", "I", "O", "N">>)
                \/ Contains(header, <<"A", "u", "t", "o", "C", "A", "D">>)
        THEN "dxf"
        ELSE IF SubSeq(header, 1, Min2(4, Len(header))) = <<"%", "P", "D", "F">> THEN "pdf"
        ELSE "image"

\* file paths: every recognized extension, upper case, no extension, a
\* leading and a trailing dot, two extensions, a dot in a directory name
FilePaths ==
    {<<"p", "l", "a", "n", ".", "d", "x", "f">>,
     <<"p", "l", "a", "n", ".", "D", "W", "G">>,
     <<"p", "l", "a", "n", ".", "p", "d", "f">>,
     <<"P", "l", "a", "n", ".", "P", "D", "F">>,
     <<"a", ".", "p", "n", "g">>,
     <<"a", ".", "j", "p", "g">>,
     <<"a", ".", "J", "P", "E", "G">>,
     <<"a", ".", "t", "i", "f", "f">>,
     <<"a", ".", "b", "m", "p">>,
     <<"a", ".", "t", "i", "f">>,
     <<"p", "l", "a", "n">>,
     <<".", "p", "d", "f">>,
     <<"p", "l", "a", "n", ".">>,
     <<"p", "l", "a", "n", ".", "d", "x", "f", ".", "b", "a", "k">>,
     <<"u", "p", ".", "p", "d", "f", "/", "p", "l", "a", "n">>,
     <<"u", "p", "/", "p", "l", "a", "n", ".", "D", "x", "f">>,
     <<"a", ".", "p", "d", "f", ".", "p", "n", "g">>,
     <<"a", ".", "s", "v", "g">>}

\* file contents: empty, a PDF, a text and a binary drawing, both kinds of
\* marker, a marker ending at byte 17 and at byte 19, a signature after the
\* first byte, a cut signature, lower-case markers, another format
FileContents ==
    {<<>>,
     <<"%", "P", "D", "F", "-", "1", ".", "7", "NL", "1", " ", "0", " ", "o", "b", "j">>,
     <<" ", " ", "0", "NL", "S", "E", "C", "T", "I", "O", "N", "NL", " ", " ", "2", "NL", "H", "E", "A", "D", "E", "R">>,
     <<"A", "u", "t", "o", "C", "A", "D", " ", "B", "i", "n", "a", "r", "y", " ", "D", "X", "F">>,
     <<"%", "P", "D", "F", " ", "A", "u", "t", "o", "C", "A", "D">>,
     <<"0", "1", "2", "3", "4", "5", "6", "7", "8", "9", "S", "E", "C", "T", "I", "O", "N">>,
     <<"0", "1", "2", "3", "4", "5", "6", "7", "8", "9", "a", "b", "S", "E", "C", "T", "I", "O", "N">>,
     <<"NL", "%", "P", "D", "F", "-", "1", ".", "4">>,
     <<"%", "P", "D">>,
     <<"s", "e", "c", "t", "i", "o", "n", " ", "a", "u", "t", "o", "c", "a", "d">>,
     <<"G", "I", "F", "8", "9", "a">>}

\* no call of ingest is under way
NoIngest ==
    /\ fmt = "" /\ venue_lat = 0 /\ floor_level = 0 /\ page_number = NoPage
    /\ pc = "idle" /\ images = 0 /\ i = 0
    /\ room_polygons = <<>> /\ door_positions = <<>>
    /\ page_result = EmptyResult /\ combined = EmptyResult /\ result = EmptyResult
    /\ error = NoError /\ calls = 0

\* no call of the ingest endpoint is under way
NoEndpoint ==
    /\ ep = "none" /\ tmp_file = "none" /\ job = None /\ response = None
    /\ db = EmptyDb /\ exc = NoError

InitDetect ==
    /\ NoIngest /\ NoEndpoint /\ NoSync
    /\ \E file_path \in FilePaths, content \in FileContents :
          op_args = [op |-> "detect_format", file_path |-> file_path,
                     content |-> content]
    /\ op_result = None

\* detect_format(file_path) on a readable file
DetectFormat ==
    /\ op_args.op = "detect_format" /\ op_result = None
    /\ op_result' = <<detect_format(op_args.file_path, op_args.content)>>
    /\ UNCHANGED <<sync_vars, ingest_vars, op_args, endpoint_vars>>

NextDetect == DetectFormat

SpecDetect == InitDetect /\ [][NextDetect]_vars

\* =============================================================== page count
\* pdfinfo_from_path(file_path): it raises, or returns the dictionary of the
\* document's metadata
PdfInfoOutcomes ==
    {[raised |-> TRUE, info |-> [Title |-> 0]],
     [raised |-> FALSE, info |-> [Title |-> 0]]}
    \cup {[raised |-> FALSE, info |-> [Title |-> 0, Pages |-> n]] :
             n \in 0..MaxInfoPages}

\* lines 103-111: info.get("Pages", 1), or 1 when pdfinfo_from_path raised
get_pdf_page_count(pdfinfo) ==
    IF pdfinfo.raised THEN 1
    ELSE IF "Pages" \in DOMAIN pdfinfo.info THEN pdfinfo.info.Pages
    ELSE 1

\* api/venues.py get_page_count (lines 526-552): what the handler does with
\* its temporary file and how it ends, <<"returned", page_count>> or
\* <<"raised", exception>>.  _get_venue raises 404; an exception of the
\* download leaves the handler through its try/finally, which has no except.
\* (BlobService in services/blob_service.py defines no download_to_file: as
\* the source stands the call raises AttributeError, download_ok = FALSE;
\* a download that succeeds is what the specification describes.)
get_page_count(format, venue_found, download_ok, pdfinfo) ==
    IF ~venue_found THEN [tmp |-> "none", outcome |-> <<"raised", 404>>]
    ELSE IF format # "pdf" THEN [tmp |-> "none", outcome |-> <<"returned", 1>>]
    ELSE IF ~download_ok THEN [tmp |-> "deleted", outcome |-> <<"raised", 500>>]
    ELSE [tmp |-> "deleted", outcome |-> <<"returned", get_pdf_page_count(pdfinfo)>>]

InitPageCount ==
    /\ NoIngest /\ NoEndpoint /\ NoSync
    /\ \E format \in {"dxf", "pdf", "image"}, venue_found \in BOOLEAN,
          download_ok \in BOOLEAN, pdfinfo \in PdfInfoOutcomes :
          op_args = [op |-> "get_page_count", format |-> format,
                     venue_found |-> venue_found, download_ok |-> download_ok,
                     pdfinfo |-> pdfinfo]
    /\ op_result = None

\* one request to the page-count endpoint
GetPageCount ==
    /\ op_args.op = "get_page_count" /\ op_result = None
    /\ \E res \in {get_page_count(op_args.format, op_args.venue_found,
                                  op_args.download_ok, op_args.pdfinfo)} :
          /\ op_result' = res.outcome
          /\ tmp_file' = res.tmp
    /\ UNCHANGED <<sync_vars, ingest_vars, op_args, ep, job, response, db, exc>>

NextPageCount == GetPageCount

SpecPageCount == InitPageCount /\ [][NextPageCount]_vars

\* ================================================================ round trip
\* mutant of GeoToMeterPoint: the longitude scaled like the latitude
GeoToMeterPointNoCos(geo, origin_x, origin_y, anchor_lat) ==
    LET k12 == (12 * METERS_PER_DEG_LAT) \div 160
    IN  [x |-> <<origin_x * E8_PER_DEG_160 + geo[2] * k12, E8_PER_DEG_160>>,
         y |-> <<origin_y * E8_PER_DEG_160 + geo[1] * k12, E8_PER_DEG_160>>]

\* lines 612-616, one point: x = origin_x + (lon - venue_lon) * meters_per_deg_lon
\* and y = origin_y + (lat - anchor_lat) * METERS_PER_DEG_LAT, as exact
\* fractions <<numerator, denominator>> of twelfths of a metre
GeoToMeterPoint(geo, origin_x, origin_y, anchor_lat) ==
    LET k12 == (12 * METERS_PER_DEG_LAT) \div 160
        c == CosLat(anchor_lat)
    IN  [x |-> <<origin_x * E8_PER_DEG_160 * c[2] + geo[2] * k12 * c[1],
                 E8_PER_DEG_160 * c[2]>>,
         y |-> <<origin_y * E8_PER_DEG_160 + geo[1] * k12, E8_PER_DEG_160>>]

\* planar points (twelfths of a metre), local origins and anchor latitudes
RoundTripPoints ==
    {<<x, y>> : x \in (-RoundTripReach)..RoundTripReach,
                y \in {-RoundTripReach, -13, 0, 1, 77, RoundTripReach}}

RoundTripOrigins == {<<0, 0>>, <<-60, 36>>}

RoundTripLatitudes == {0, 60}

InitRoundTrip ==
    /\ NoIngest /\ NoEndpoint /\ NoSync
    /\ \E p \in RoundTripPoints, origin \in RoundTripOrigins,
          lat \in RoundTripLatitudes :
          op_args = [op |-> "round_trip", x |-> p[1], y |-> p[2],
                     origin_x |-> origin[1], origin_y |-> origin[2],
                     venue_lat |-> lat]
    /\ op_result = None

\* _meter_to_geo_point on the point
MeterToGeo ==
    /\ op_args.op = "round_trip" /\ op_result = None
    /\ op_result' = [geo |-> meter_to_geo_point(op_args.x, op_args.y, op_args.origin_x,
                                                op_args.origin_y, op_args.venue_lat),
                     back |-> None]
    /\ UNCHANGED <<sync_vars, ingest_vars, op_args, endpoint_vars>>

\* _geo_to_meters on the geographic point, with the same origin and anchor
GeoToMeters ==
    /\ op_args.op = "round_trip" /\ op_result # None /\ op_result.back = None
    /\ op_result' = [op_result EXCEPT
                        !.back = GeoToMeterPoint(op_result.geo, op_args.origin_x,
                                                 op_args.origin_y, op_args.venue_lat)]
    /\ UNCHANGED <<sync_vars, ingest_vars, op_args, endpoint_vars>>

NextRoundTrip ==
    \/ MeterToGeo
    \/ GeoToMeters

SpecRoundTrip == InitRoundTrip /\ [][NextRoundTrip]_vars

\* ============================================================ door detection
\* Wall segments are pairs of endpoints in centimetres; midpoints are kept
\* doubled (half centimetres).
MIN_GAP_CM == 70

MAX_GAP_CM == 150

\* (end_a[0] - end_b[0]) ** 2 + (end_a[1] - end_b[1]) ** 2, in cm^2
EndDist2(end_a, end_b) ==
    (end_a[1] - end_b[1]) * (end_a[1] - end_b[1])
    + (end_a[2] - end_b[2]) * (end_a[2] - end_b[2])

\* mutant of IsGap: a gap strictly between the two widths
IsGapStrict(end_a, end_b) ==
    /\ MIN_GAP_CM * MIN_GAP_CM < EndDist2(end_a, end_b)
    /\ EndDist2(end_a, end_b) < MAX_GAP_CM * MAX_GAP_CM

\* min_gap_m <= dist <= max_gap_m, dist the square root of EndDist2
IsGap(end_a, end_b) ==
    /\ MIN_GAP_CM * MIN_GAP_CM <= EndDist2(end_a, end_b)
    /\ EndDist2(end_a, end_b) <= MAX_GAP_CM * MAX_GAP_CM

\* lines 383-391: the list `doors` before deduplication, in the order of the
\* four nested loops (seg_a, the later seg_b, end_a, end_b)
DoorCandidates(wall_segments) ==
    LET n == Len(wall_segments)
        code(a, b, ea, eb) == ((a * (n + 1) + b) * 2 + (ea - 1)) * 2 + (eb - 1)
        hits == {q \in (1..n) \X (1..n) \X (1..2) \X (1..2) :
                    /\ q[1] < q[2]
                    /\ IsGap(wall_segments[q[1]][q[3]], wall_segments[q[2]][q[4]])}
        codes == {code(q[1], q[2], q[3], q[4]) : q \in hits}
        at(k) == CHOOSE q \in hits : code(q[1], q[2], q[3], q[4]) = KthOf(codes, k)
    IN  List([k \in 1..Cardinality(hits) |->
                <<wall_segments[at(k)[1]][at(k)[3]][1]
                    + wall_segments[at(k)[2]][at(k)[4]][1],
                  wall_segments[at(k)[1]][at(k)[3]][2]
                    + wall_segments[at(k)[2]][at(k)[4]][2]>>])

\* round(v, 1) of a doubled coordinate v2 (half centimetres), in tenths of a
\* metre.  A coordinate that ends in 5 cm is a tie in decimal; which way its
\* float rounds depends on the float's binary value: tie_up.
RoundTenth(v2, tie_up) ==
    LET q == FloorDiv(v2, 20)
        r == v2 - 20 * q
    IN  IF r < 10 THEN q
        ELSE IF r > 10 THEN q + 1
        ELSE IF tie_up THEN q + 1 ELSE q

\* mutant of detect_doors: of the candidates with one rounded position the
\* last is kept
detect_doors_keep_last(wall_segments, tie_up) ==
    Let(DoorCandidates(wall_segments), LAMBDA doors :
        Let(List([k \in 1..Len(doors) |->
                    <<RoundTenth(doors[k][1], tie_up), RoundTenth(doors[k][2], tie_up)>>]),
            LAMBDA key :
                Let({k \in 1..Len(doors) :
                        \A h \in (k + 1)..Len(doors) : key[h] # key[k]},
                    LAMBDA kept :
                        [doors |-> doors,
                         deduped |-> List([k \in 1..Cardinality(kept) |->
                                              doors[KthOf(kept, k)]])])))

\* lines 393-401: the candidates whose rounded position was not seen before
detect_doors(wall_segments, tie_up) ==
    Let(DoorCandidates(wall_segments), LAMBDA doors :
        Let(List([k \in 1..Len(doors) |->
                    <<RoundTenth(doors[k][1], tie_up), RoundTenth(doors[k][2], tie_up)>>]),
            LAMBDA key :
                Let({k \in 1..Len(doors) : \A h \in 1..(k - 1) : key[h] # key[k]},
                    LAMBDA kept :
                        [doors |-> doors,
                         deduped |-> List([k \in 1..Cardinality(kept) |->
                                              doors[KthOf(kept, k)]])])))

\* wall segments around the endpoint (100, 0): gaps of 70, 69, 72, 74, 150
\* and 151 cm along the wall (the midpoints at 1.35, 1.36 and 1.37 m round
\* to 1.4, the first on a tie), of 150 cm on a diagonal, of 70 cm across, and the
\* 100 cm between the two ends of the first segment
WallSegments ==
    {<<<<0, 0>>, <<100, 0>>>>,
     <<<<170, 0>>, <<400, 0>>>>,
     <<<<169, 0>>, <<400, 0>>>>,
     <<<<172, 0>>, <<400, 0>>>>,
     <<<<174, 0>>, <<400, 0>>>>,
     <<<<250, 0>>, <<480, 0>>>>,
     <<<<251, 0>>, <<480, 0>>>>,
     <<<<190, 120>>, <<190, 400>>>>,
     <<<<100, 300>>, <<100, 70>>>>}

InitDoors ==
    /\ NoIngest /\ NoEndpoint /\ NoSync
    /\ \E n \in 0..MaxSegments :
       \E wall_segments \in [1..n -> WallSegments] :
       \E tie_up \in BOOLEAN :
          op_args = [op |-> "detect_doors", wall_segments |-> List(wall_segments),
                     tie_up |-> tie_up]
    /\ op_result = None

\* _detect_doors(walls, wall_segments, scale)
DetectDoors ==
    /\ op_args.op = "detect_doors" /\ op_result = None
    /\ op_result' = detect_doors(op_args.wall_segments, op_args.tie_up)
    /\ UNCHANGED <<sync_vars, ingest_vars, op_args, endpoint_vars>>

NextDoors == DetectDoors

SpecDoors == InitDoors /\ [][NextDoors]_vars

\* ============================================================== vector scale
\* A drawing entity: its type, the kinds of layer name its layer matches
\* ("wall", "door", "room": the substring tests of lines 162, 180, 190), the
\* closed flag and points of a polyline (the start and end of a line, the
\* insert point of a block, the defpoints of a dimension), the measurement of
\* a dimension and whether reading its attributes raises.  Scales are
\* fractions <<numerator, denominator>>; scaled coordinates are fractions too.
DEFAULT_SCALE == <<1, 1000>>

Entity(kind, layers, closed, pts, measurement, fails) ==
    [kind |-> kind, layers |-> layers, closed |-> closed, pts |-> pts,
     measurement |-> measurement, fails |-> fails]

\* math.sqrt of a perfect square
SqrtExact(n) == CHOOSE r \in 0..n : r * r = n

IsDimension(entity) == entity.kind \in {"DIMENSION", "ALIGNED_DIMENSION"}

\* lines 217-225 for one dimension entity: <<TRUE, scale>> when it returns
DimensionScale(entity) ==
    IF entity.fails THEN <<FALSE, DEFAULT_SCALE>>
    ELSE IF entity.measurement # 0 /\ entity.measurement > 0
    THEN LET drawing_dist == SqrtExact(EndDist2(entity.pts[1], entity.pts[2]))
         IN  IF drawing_dist > 0 THEN <<TRUE, <<entity.measurement, drawing_dist>>>>
             ELSE <<FALSE, DEFAULT_SCALE>>
    ELSE <<FALSE, DEFAULT_SCALE>>

\* mutant of CalibrateFrom: only the first dimension entity is tried
RECURSIVE CalibrateFirstOnly(_, _)
CalibrateFirstOnly(entities, k) ==
    IF k > Len(entities) THEN DEFAULT_SCALE
    ELSE IF IsDimension(entities[k])
    THEN IF DimensionScale(entities[k])[1] THEN DimensionScale(entities[k])[2]
         ELSE DEFAULT_SCALE
    ELSE CalibrateFirstOnly(entities, k + 1)

\* lines 213-228: the loop over msp from entity k on
RECURSIVE CalibrateFrom(_, _)
CalibrateFrom(entities, k) ==
    IF k > Len(entities) THEN DEFAULT_SCALE
    ELSE IF IsDimension(entities[k]) /\ DimensionScale(entities[k])[1]
    THEN DimensionScale(entities[k])[2]
    ELSE CalibrateFrom(entities, k + 1)

calibrate_scale_dxf(entities) == CalibrateFrom(entities, 1)

\* (x * scale, y * scale)
ScalePoint(p, scale) == <<<<p[1] * scale[1], scale[2]>>, <<p[2] * scale[1], scale[2]>>>>

ScalePoints(pts, scale) == List([k \in 1..Len(pts) |-> ScalePoint(pts[k], scale)])

\* lines 162-178: what one entity adds to wall_segments
EntityWalls(entity, scale) ==
    IF "wall" \notin entity.layers THEN <<>>
    ELSE IF entity.kind = "LINE"
    THEN <<<<ScalePoint(entity.pts[1], scale), ScalePoint(entity.pts[2], scale)>>>>
    ELSE IF entity.kind = "LWPOLYLINE"
    THEN List([k \in 1..(Len(entity.pts) - 1) |->
                 <<ScalePoint(entity.pts[k], scale), ScalePoint(entity.pts[k + 1], scale)>>])
    ELSE <<>>

\* lines 175-178 and 191-202: what one entity adds to room_polygons (a closed
\* polyline on a wall layer and on a room layer is added twice; a hatch has
\* one boundary path here)
EntityRooms(entity, scale) ==
    IF entity.kind = "LWPOLYLINE" /\ entity.closed /\ Len(entity.pts) >= 3
    THEN (IF "wall" \in entity.layers THEN <<ScalePoints(entity.pts, scale)>> ELSE <<>>)
         \o (IF "room" \in entity.layers THEN <<ScalePoints(entity.pts, scale)>> ELSE <<>>)
    ELSE IF entity.kind = "HATCH" /\ "room" \in entity.layers /\ Len(entity.pts) >= 3
    THEN <<ScalePoints(entity.pts, scale)>>
    ELSE <<>>

\* lines 180-188: what one entity adds to door_positions
EntityDoors(entity, scale) ==
    IF "door" \notin entity.layers THEN <<>>
    ELSE IF entity.kind = "INSERT" THEN <<ScalePoint(entity.pts[1], scale)>>
    ELSE IF entity.kind = "LINE"
    THEN << << <<(entity.pts[1][1] + entity.pts[2][1]) * scale[1], 2 * scale[2]>>,
               <<(entity.pts[1][2] + entity.pts[2][2]) * scale[1], 2 * scale[2]>> >> >>
    ELSE <<>>

\* the lists the entities add, in drawing order
RECURSIVE JoinAll(_)
JoinAll(lists) ==
    IF lists = <<>> THEN <<>> ELSE Head(lists) \o JoinAll(Tail(lists))

\* _ingest_dxf up to its call of _assemble (lines 147-210): the scale and
\* the three lists.  _rooms_from_walls is kept as an application to the
\* scaled segments.
ingest_dxf_scan(entities, scale_given, scale_value) ==
    Let(IF scale_given THEN scale_value ELSE calibrate_scale_dxf(entities),
        LAMBDA scale :
            Let(JoinAll([k \in 1..Len(entities) |-> EntityWalls(entities[k], scale)]), LAMBDA wall_segments :
            Let(JoinAll([k \in 1..Len(entities) |-> EntityRooms(entities[k], scale)]), LAMBDA polygons :
                [scale |-> scale,
                 wall_segments |-> wall_segments,
                 door_positions |-> JoinAll([k \in 1..Len(entities) |->
                                               EntityDoors(entities[k], scale)]),
                 room_polygons |-> polygons,
                 rooms_from_walls |-> polygons = <<>> /\ wall_segments # <<>>])))

\* the entities of a drawing: dimensions that give 10/5 and 1/10, dimensions
\* without a measurement, with a negative one, with equal defpoints, with
\* attributes that raise; a room polyline, a wall line, a closed wall
\* polyline, a room hatch, a door block and a door line on a wall layer
DrawingEntities ==
    {Entity("DIMENSION", {}, FALSE, <<<<0, 0>>, <<3, 4>>>>, 10, FALSE),
     Entity("ALIGNED_DIMENSION", {}, FALSE, <<<<0, 0>>, <<10, 0>>>>, 1, FALSE),
     Entity("DIMENSION", {}, FALSE, <<<<0, 0>>, <<3, 4>>>>, 0, FALSE),
     Entity("DIMENSION", {}, FALSE, <<<<0, 0>>, <<3, 4>>>>, -3, FALSE),
     Entity("DIMENSION", {}, FALSE, <<<<7, 7>>, <<7, 7>>>>, 4, FALSE),
     Entity("DIMENSION", {}, FALSE, <<<<0, 0>>, <<3, 4>>>>, 4, TRUE),
     Entity("LWPOLYLINE", {"room"}, TRUE,
            <<<<0, 0>>, <<4000, 0>>, <<4000, 3000>>, <<0, 3000>>>>, 0, FALSE),
     Entity("LINE", {"wall"}, FALSE, <<<<0, 0>>, <<4000, 0>>>>, 0, FALSE),
     Entity("LWPOLYLINE", {"wall"}, TRUE,
            <<<<0, 0>>, <<2000, 0>>, <<2000, 1000>>>>, 0, FALSE),
     Entity("HATCH", {"room"}, FALSE,
            <<<<0, 0>>, <<3000, 0>>, <<0, 3000>>>>, 0, FALSE),
     Entity("INSERT", {"door"}, FALSE, <<<<1000, 0>>>>, 0, FALSE),
     Entity("LINE", {"door", "wall"}, FALSE, <<<<4000, 1000>>, <<4000, 1900>>>>, 0, FALSE)}

\* scale_m_per_unit: None, or a number (0.0 is a number)
ExplicitScales ==
    {<<FALSE, <<0, 1>>>>, <<TRUE, <<1, 100>>>>, <<TRUE, <<0, 1>>>>}

InitScale ==
    /\ NoIngest /\ NoEndpoint /\ NoSync
    /\ \E n \in 0..MaxEntities :
       \E entities \in [1..n -> DrawingEntities] :
       \E scale \in ExplicitScales :
          op_args = [op |-> "ingest_dxf", entities |-> List(entities),
                     scale_given |-> scale[1], scale_value |-> scale[2]]
    /\ op_result = None

\* _ingest_dxf reads the drawing, settles the scale and scans the entities
IngestDxfScan ==
    /\ op_args.op = "ingest_dxf" /\ op_result = None
    /\ op_result' = ingest_dxf_scan(op_args.entities, op_args.scale_given,
                                    op_args.scale_value)
    /\ UNCHANGED <<sync_vars, ingest_vars, op_args, endpoint_vars>>

NextScale == IngestDxfScan

SpecScale == InitScale /\ [][NextScale]_vars

\* ============================================================ ingest endpoint
\* ingest_floor_plan (api/venues.py 554-680), one call.  The request is a
\* call of Requests and whether the venue is found; the position ep moves
\* "start" -> "try" -> "download" -> "call" -> "ingest" -> "persist" ->
\* "commit" -> "finally" -> "ended", with "except" entered from every step
\* of the try block.  The download is the call of line 577 with its two
\* outcomes (BlobService in services/blob_service.py defines no
\* download_to_file, so as the sources stand the call raises).
\* the request bodies: a drawing, an image, a PDF with a page selected and
\* a PDF without
Requests == {<<"dxf", 0, 0, NoPage>>, <<"image", 60, 2, NoPage>>,
             <<"pdf", 60, 2, 1>>, <<"pdf", 0, 2, NoPage>>}

InitEndpoint ==
    /\ NoIngest /\ NoSync
    /\ \E call \in Requests, venue_found \in BOOLEAN :
          op_args = [op |-> "ingest_floor_plan", call |-> call,
                     venue_found |-> venue_found]
    /\ op_result = None
    /\ ep = "start" /\ tmp_file = "none" /\ job = None /\ response = None
    /\ db = EmptyDb /\ exc = NoError

IngestionJob(status, zone_count, connection_count, perch_point_count, error_message) ==
    [status |-> status, zone_count |-> zone_count,
     connection_count |-> connection_count,
     perch_point_count |-> perch_point_count, error_message |-> error_message]

\* db.commit(): the pending rows, the venue's changes and the job row, when
\* the session holds it, are stored
CommitSession(session, row) ==
    [pending |-> EmptyDb.pending,
     zones |-> session.zones + session.pending.zones,
     connections |-> session.connections + session.pending.connections,
     perch_points |-> session.perch_points + session.pending.perch_points,
     floor_plan_blob_key |-> IF session.pending.venue THEN "blob_key"
                             ELSE session.floor_plan_blob_key,
     cloud_version |-> IF session.pending.venue THEN session.cloud_version + 1
                       ELSE session.cloud_version,
     job |-> IF session.pending.job THEN row ELSE session.job]

\* line 562, _get_venue (235-241): no venue of this customer, HTTP 404
VenueNotFound ==
    /\ ep = "start" /\ ~op_args.venue_found
    /\ response' = [raised |-> "HTTPException 404"]
    /\ ep' = "ended"
    /\ UNCHANGED <<sync_vars, ingest_vars, op_args, op_result, tmp_file, job, db, exc>>

\* lines 564-573: the job row, status "processing", added and flushed
CreateJob ==
    /\ ep = "start" /\ op_args.venue_found
    /\ job' = IngestionJob("processing", None, None, None, None)
    /\ db' = [db EXCEPT !.pending.job = TRUE]
    /\ ep' = "try"
    /\ UNCHANGED <<sync_vars, ingest_vars, op_args, op_result, tmp_file, response, exc>>

\* line 576: NamedTemporaryFile(delete=False) creates the file, or raises
\* and leaves tmp unbound
CreateTmp ==
    /\ ep = "try"
    /\ \/ tmp_file' = "open" /\ ep' = "download" /\ exc' = exc
       \/ tmp_file' = tmp_file /\ ep' = "except" /\ exc' = "OSError"
    /\ UNCHANGED <<sync_vars, ingest_vars, op_args, op_result, job, response, db>>

\* lines 577-578: the blob is downloaded and the file closed
Download ==
    /\ ep = "download"
    /\ tmp_file' = "closed"
    /\ ep' = "call"
    /\ UNCHANGED <<sync_vars, ingest_vars, op_args, op_result, job, response, db, exc>>

\* line 577 raises: the file stays open
DownloadRaises ==
    /\ ep = "download"
    /\ exc' = "download failed"
    /\ ep' = "except"
    /\ UNCHANGED <<sync_vars, ingest_vars, op_args, op_result, tmp_file, job, response, db>>

\* lines 582-590: ingest is called with the request's fields
CallIngest ==
    /\ ep = "call" /\ pc = "idle"
    /\ fmt' = op_args.call[1]
    /\ venue_lat' = op_args.call[2]
    /\ floor_level' = op_args.call[3]
    /\ page_number' = op_args.call[4]
    /\ pc' = "start"
    /\ ep' = "ingest"
    /\ UNCHANGED <<sync_vars, op_args, op_result, tmp_file, job, response, db, exc,
                   images, i,
                   room_polygons, door_positions, page_result, combined, result,
                   error, calls>>

\* ingest raised: the except clause is entered with its exception
IngestRaised ==
    /\ ep = "ingest" /\ pc = "raised"
    /\ exc' = error
    /\ ep' = "except"
    /\ UNCHANGED <<sync_vars, ingest_vars, op_args, op_result, tmp_file, job, response, db>>

\* the rows and venue changes a session holds after lines 592-641
Pending(res) ==
    [zones |-> Len(res.zones), connections |-> Len(res.connections),
     perch_points |-> Len(res.perch_points), venue |-> TRUE, job |-> TRUE]

\* lines 592-650: every zone, connection and perch point is added to the
\* session, the venue's fields are set and the job is completed
Persist ==
    /\ ep = "ingest" /\ pc = "done"
    /\ db' = [db EXCEPT !.pending = Pending(result)]
    /\ job' = IngestionJob("completed", Len(result.zones), Len(result.connections),
                           Len(result.perch_points), None)
    /\ ep' = "commit"
    /\ UNCHANGED <<sync_vars, ingest_vars, op_args, op_result, tmp_file, response, exc>>

\* a statement of lines 592-641 raises after the zones were added
PersistRaises ==
    /\ ep = "ingest" /\ pc = "done"
    /\ db' = [db EXCEPT !.pending.zones = Len(result.zones)]
    /\ exc' = "persist failed"
    /\ ep' = "except"
    /\ UNCHANGED <<sync_vars, ingest_vars, op_args, op_result, tmp_file, job, response>>

\* lines 643-644
PagesProcessed(res) ==
    LET floor_levels_seen == {res.zones[k].floor_level : k \in 1..Len(res.zones)}
    IN  IF floor_levels_seen # {} THEN Cardinality(floor_levels_seen) ELSE 1

\* lines 652-661: the commit succeeds and the completed response is returned
Commit ==
    /\ ep = "commit"
    /\ db' = CommitSession(db, job)
    /\ response' = [job_id |-> "job", status |-> "completed",
                    zone_count |-> job.zone_count,
                    connection_count |-> job.connection_count,
                    perch_point_count |-> job.perch_point_count,
                    pages_processed |-> PagesProcessed(result),
                    error_message |-> None]
    /\ ep' = "finally"
    /\ UNCHANGED <<sync_vars, ingest_vars, op_args, op_result, tmp_file, job, exc>>

\* line 652 raises: the transaction is rolled back, and with it the insert
\* of the job row; the session drops the objects it had added
CommitRaises ==
    /\ ep = "commit"
    /\ db' = [db EXCEPT !.pending = EmptyDb.pending]
    /\ exc' = "commit failed"
    /\ ep' = "except"
    /\ UNCHANGED <<sync_vars, ingest_vars, op_args, op_result, tmp_file, job, response>>

\* lines 663-674: the job object is failed with the exception's text and
\* the session committed as it is (no rollback); the failed response is
\* returned, or the second commit raises and its error leaves the handler
Except ==
    /\ ep = "except"
    /\ job' = [job EXCEPT !.status = "failed", !.error_message = exc]
    /\ \/ /\ db' = CommitSession(db, job')
          /\ response' = [job_id |-> "job", status |-> "failed",
                          zone_count |-> None, connection_count |-> None,
                          perch_point_count |-> None, pages_processed |-> None,
                          error_message |-> exc]
       \/ /\ db' = [db EXCEPT !.pending = EmptyDb.pending]
          /\ response' = [raised |-> "commit failed"]
    /\ ep' = "finally"
    /\ UNCHANGED <<sync_vars, ingest_vars, op_args, op_result, tmp_file, exc>>

\* mutant of Finally: the file is removed only after a completed ingestion
FinallyOnSuccess ==
    /\ ep = "finally"
    /\ tmp_file' = IF tmp_file \in {"open", "closed"} /\ job.status = "completed"
                   THEN "deleted" ELSE tmp_file
    /\ ep' = "ended"
    /\ UNCHANGED <<sync_vars, ingest_vars, op_args, op_result, job, response, db, exc>>

\* lines 675-680: os.unlink(tmp.name); with tmp unbound the NameError is
\* swallowed.  Then the handler returns or raises what response holds.
Finally ==
    /\ ep = "finally"
    /\ tmp_file' = IF tmp_file \in {"open", "closed"} THEN "deleted" ELSE tmp_file
    /\ ep' = "ended"
    /\ UNCHANGED <<sync_vars, ingest_vars, op_args, op_result, job, response, db, exc>>

NextEndpoint ==
    \/ VenueNotFound
    \/ CreateJob
    \/ CreateTmp
    \/ Download
    \/ DownloadRaises
    \/ CallIngest
    \/ IngestDxf
    \/ IngestImage
    \/ IngestPdf
    \/ RenderFails
    \/ ProcessImageFails
    \/ ExtractRoom
    \/ ExtractDoor
    \/ Assemble
    \/ NextPage
    \/ ReturnCombined
    \/ IngestRaised
    \/ Persist
    \/ PersistRaises
    \/ Commit
    \/ CommitRaises
    \/ Except
    \/ Finally

SpecEndpoint == InitEndpoint /\ [][NextEndpoint]_vars

\* ================================================================ delta sync
\* services/sync_service.py and api/sync.py.  A row is a record of the
\* columns the rules read or write; a column a table does not have, or a
\* nullable column without value, holds NULL.  Ids are primary keys per
\* table.
NULL == "null"

TABLE_MODEL_MAP ==
    {"venues", "venue_zones", "zone_connections", "perch_points",
     "surface_assessments", "operations", "principals", "alerts", "drones",
     "wm_nodes", "wm_edges"}

SYNCABLE_MODELS ==
    {"venues", "venue_zones", "zone_connections", "perch_points", "principals",
     "drones", "wm_nodes", "wm_edges"}

\* the keyword arguments the model class of a table accepts, among the
\* columns of a row (models/*.py: ZoneConnection has no source_workstation_id)
Columns(table) ==
    {"id", "customer_id", "cloud_version"}
    \cup (IF table = "zone_connections" THEN {"from_zone_id", "to_zone_id"}
          ELSE {"source_workstation_id"})
    \cup (IF table = "perch_points" THEN {"attempt_count", "success_count"} ELSE {})
    \cup (IF table = "venue_zones" THEN {"name"} ELSE {})
    \cup (IF table = "wm_nodes" THEN {"abstraction_level"} ELSE {})

SyncRow(table, id, customer_id, cloud_version, source_workstation_id, from_zone_id, to_zone_id, attempt_count, success_count, name, abstraction_level) ==
    [table |-> table, id |-> id, customer_id |-> customer_id,
     cloud_version |-> cloud_version,
     source_workstation_id |-> source_workstation_id,
     from_zone_id |-> from_zone_id, to_zone_id |-> to_zone_id,
     attempt_count |-> attempt_count, success_count |-> success_count,
     name |-> name, abstraction_level |-> abstraction_level]

\* a row with the column defaults of its model
DefaultRow(table, id) ==
    SyncRow(table, id, NULL, 1, NULL, NULL, NULL, 0, 0, NULL, NULL)

\* data.get(key, default)
DataGet(data, key, default) == IF key \in DOMAIN data THEN data[key] ELSE default

\* lines 178-206 for the tables of the model (venues and drones, decided by
\* their timestamps, are not among them)
resolve_conflict(table, existing, incoming) ==
    IF table \in {"surface_assessments", "operations", "alerts"} THEN "accept"
    ELSE IF table = "wm_nodes"
    THEN IF existing.abstraction_level \in {"pattern", "principle"} THEN "reject"
         ELSE "accept"
    ELSE IF table = "perch_points" THEN "merge_perch"
    ELSE "accept"

\* lines 89-91
MergePerch(existing, data) ==
    [existing EXCEPT !.attempt_count = @ + DataGet(data, "attempt_count", 0),
                     !.success_count = @ + DataGet(data, "success_count", 0),
                     !.cloud_version = @ + 1]

\* lines 93-97: every key of data but id and customer_id is set on the row
\* (a key that is no column only sets an attribute of the object)
AcceptUpdate(existing, data, workstation) ==
    [[f \in DOMAIN existing |->
         IF f \in (DOMAIN data \cap Columns(existing.table)) \ {"id", "customer_id"}
         THEN data[f] ELSE existing[f]]
     EXCEPT !.cloud_version =
                DataGet(data, "cloud_version", existing.cloud_version) + 1,
            !.source_workstation_id =
                IF "source_workstation_id" \in Columns(existing.table)
                THEN workstation ELSE @]

\* lines 99-104: the constructor raises TypeError for a keyword that is no
\* column of the model
InsertAccepted(table, data) ==
    (DOMAIN data \cup {"id", "customer_id", "source_workstation_id", "cloud_version"})
        \subseteq Columns(table)

NewRow(entity, customer, workstation) ==
    [[f \in DOMAIN DefaultRow(entity.table, entity.id) |->
         IF f \in DOMAIN entity.data THEN entity.data[f]
         ELSE DefaultRow(entity.table, entity.id)[f]]
     EXCEPT !.id = entity.id, !.customer_id = customer,
            !.source_workstation_id = workstation, !.cloud_version = 1]

\* line 80: no filter on the customer
Existing(rows, entity) ==
    {r \in rows : r.table = entity.table /\ r.id = entity.id}

\* lines 73-107: the loop from entity k on.  acc holds the persistent rows
\* as the session has them, the objects added (not flushed: the session has
\* autoflush off, so line 80 does not see them), the counters and whether a
\* statement raised.
RECURSIVE ApplyEntities(_, _, _, _, _)
ApplyEntities(entities, k, customer, workstation, acc) ==
    IF k > Len(entities) \/ acc.raised # NoError THEN acc
    ELSE LET entity == entities[k]
             next(a) == ApplyEntities(entities, k + 1, customer, workstation, a)
         IN  IF entity.table \notin TABLE_MODEL_MAP
             THEN next([acc EXCEPT !.rejected = @ + 1,
                           !.conflicts = Append(@, <<entity.id, "Unknown table">>)])
             ELSE IF Existing(acc.rows, entity) # {}
             THEN LET existing == CHOOSE r \in Existing(acc.rows, entity) : TRUE
                      resolution == resolve_conflict(entity.table, existing, entity.data)
                  IN  IF resolution = "reject"
                      THEN next([acc EXCEPT !.rejected = @ + 1,
                                    !.conflicts =
                                        Append(@, <<entity.id, "cloud_authoritative">>)])
                      ELSE next([acc EXCEPT
                                    !.rows = (@ \ {existing}) \cup
                                        {IF resolution = "merge_perch"
                                         THEN MergePerch(existing, entity.data)
                                         ELSE AcceptUpdate(existing, entity.data,
                                                           workstation)},
                                    !.accepted = @ + 1])
             ELSE IF ~InsertAccepted(entity.table, entity.data)
             THEN [acc EXCEPT !.raised = "TypeError"]
             ELSE next([acc EXCEPT
                           !.added = Append(@, NewRow(entity, customer, workstation)),
                           !.accepted = @ + 1])

\* lines 208-221
current_max_version(rows, customer) ==
    SetMax({0} \cup {r.cloud_version :
                       r \in {q \in rows : /\ q.table \in SYNCABLE_MODELS
                                           /\ q.customer_id = customer}})

\* lines 62-129: apply_push.  The flush of the commit fails when two added
\* objects have one primary key; the maximum of line 109 is read before the
\* flush.
apply_push(rows, customer, workstation, entities) ==
    Let(ApplyEntities(entities, 1, customer, workstation,
                      [rows |-> rows, added |-> <<>>, accepted |-> 0, rejected |-> 0,
                       conflicts |-> <<>>, raised |-> NoError]),
        LAMBDA acc :
            IF acc.raised # NoError
            THEN [rows |-> rows, raised |-> acc.raised]
            ELSE IF \E a, b \in 1..Len(acc.added) :
                        /\ a # b
                        /\ acc.added[a].table = acc.added[b].table
                        /\ acc.added[a].id = acc.added[b].id
            THEN [rows |-> rows, raised |-> "IntegrityError"]
            ELSE [rows |-> acc.rows \cup {acc.added[a] : a \in 1..Len(acc.added)},
                  raised |-> NoError,
                  accepted |-> acc.accepted, rejected |-> acc.rejected,
                  new_cloud_version |-> current_max_version(rows, customer) + 1,
                  conflicts |-> acc.conflicts])

\* lines 131-154: build_pull; the entities as <<table, id, cloud_version>>
build_pull(rows, customer, since) ==
    [raised |-> NoError,
     entities |-> {<<r.table, r.id, r.cloud_version>> :
                      r \in {q \in rows : /\ q.table \in SYNCABLE_MODELS
                                          /\ q.customer_id = customer
                                          /\ q.cloud_version > since}},
     cloud_version |-> current_max_version(rows, customer)]

\* the rows before the first request: two connections, a perch point and a
\* pattern node of customer A, a zone of customer B
StoredRows ==
    {SyncRow("zone_connections", "c1", "A", 1, NULL, "z1", "z2", 0, 0, NULL, NULL),
     SyncRow("zone_connections", "c2", "A", 1, NULL, "z2", "z3", 0, 0, NULL, NULL),
     SyncRow("perch_points", "p1", "A", 1, NULL, NULL, NULL, 0, 0, NULL, NULL),
     SyncRow("wm_nodes", "n1", "A", 1, NULL, NULL, NULL, 0, 0, NULL, "pattern"),
     SyncRow("venue_zones", "z7", "B", 1, NULL, NULL, NULL, 0, 0, "Zone 1", NULL)}

\* the entities a workstation pushes
SyncEntity(table, id, data) == [table |-> table, id |-> id, data |-> data]

PushEntities ==
    {SyncEntity("zone_connections", "c2", [from_zone_id |-> "z1", to_zone_id |-> "z2"]),
     SyncEntity("zone_connections", "c3", [from_zone_id |-> "z1", to_zone_id |-> "z2"]),
     SyncEntity("venue_zones", "z7", [name |-> "renamed"]),
     SyncEntity("venue_zones", "z9", [name |-> "Zone 9"]),
     SyncEntity("perch_points", "p1", [attempt_count |-> 1, success_count |-> 1]),
     SyncEntity("wm_nodes", "n1", [abstraction_level |-> "specific"]),
     SyncEntity("kits", "k1", [name |-> "kit"])}

\* the workstation whose recorded version and pulls are followed
Observer == "w1"

InitSync ==
    /\ NoIngest /\ NoEndpoint
    /\ op_args = None /\ op_result = None
    /\ store = StoredRows
    /\ workstations = [w \in DOMAIN WorkstationOwner |->
                          [last_sync_at |-> FALSE, last_seen_at |-> FALSE]]
    /\ recorded = 0
    /\ changed = {}

\* _get_workstation (api/sync.py 65-75): the workstation is not one of the
\* authenticated customer, HTTP 404
WorkstationNotFound ==
    /\ \E w \in DOMAIN WorkstationOwner, customer \in {"A", "B"},
          op \in {"push", "pull"} :
          /\ WorkstationOwner[w] # customer
          /\ op_args' = [op |-> op, workstation |-> w, customer |-> customer]
    /\ op_result' = [raised |-> "HTTPException 404"]
    /\ UNCHANGED <<ingest_vars, endpoint_vars, sync_vars>>

\* the keys of the rows of a customer that differ between two stores
ChangedKeys(before, after, customer) ==
    {<<r.table, r.id>> : r \in {q \in after \ before : q.customer_id = customer}}

\* delta_push (api/sync.py 82-96) with apply_push
DeltaPush ==
    \E w \in DOMAIN WorkstationOwner :
    \E n \in 1..MaxPushEntities :
    \E entities \in [1..n -> PushEntities] :
    \E res \in {apply_push(store, WorkstationOwner[w], w, List(entities))} :
        /\ \A r \in res.rows : r.cloud_version <= MaxVersion
        /\ op_args' = [op |-> "push", workstation |-> w,
                       customer |-> WorkstationOwner[w], entities |-> List(entities)]
        /\ op_result' = [f \in DOMAIN res \ {"rows"} |-> res[f]]
        /\ store' = res.rows
        /\ workstations' = IF res.raised = NoError
                           THEN [workstations EXCEPT ![w] =
                                    [last_sync_at |-> TRUE, last_seen_at |-> TRUE]]
                           ELSE workstations
        /\ changed' = IF w # Observer
                      THEN changed \cup ChangedKeys(store, res.rows,
                                                    WorkstationOwner[Observer])
                      ELSE changed
        /\ UNCHANGED <<ingest_vars, endpoint_vars, recorded>>

\* delta_pull (api/sync.py 99-113) with build_pull
DeltaPull ==
    \E w \in DOMAIN WorkstationOwner :
    \E since \in IF w = Observer THEN {recorded} ELSE {0} :
        /\ op_args' = [op |-> "pull", workstation |-> w,
                       customer |-> WorkstationOwner[w], since |-> since]
        /\ op_result' = build_pull(store, WorkstationOwner[w], since)
        /\ workstations' = [workstations EXCEPT ![w].last_seen_at = TRUE]
        /\ UNCHANGED <<ingest_vars, endpoint_vars, store, recorded, changed>>

\* the observing workstation keeps the cloud version of the response it got
RecordVersion ==
    /\ op_args # None /\ op_args.workstation = Observer
    /\ op_result.raised = NoError
    /\ recorded' = IF op_args.op = "pull" THEN op_result.cloud_version
                   ELSE op_result.new_cloud_version
    /\ recorded' # recorded \/ changed # {}
    /\ changed' = {}
    /\ UNCHANGED <<ingest_vars, endpoint_vars, op_args, op_result, store, workstations>>

NextSync ==
    \/ WorkstationNotFound
    \/ DeltaPush
    \/ DeltaPull
    \/ RecordVersion

SpecSync == InitSync /\ [][NextSync]_vars

\* ===================================================================== claims
Returned == pc = "done"

ZoneIds(res) == {res.zones[k].id : k \in 1..Len(res.zones)}

ConnectionIds(res) == {res.connections[k].id : k \in 1..Len(res.connections)}

PerchIds(res) == {res.perch_points[k].id : k \in 1..Len(res.perch_points)}

\* C1: an assembly that received no room polygons returned the empty result
\* whatever door positions it received, and no result ingest returns holds a
\* connection or a perch point without holding a zone.
C1_NoZonesNothingElse ==
    /\ (pc \in {"paged", "done"} /\ room_polygons = <<>>)
           => page_result = EmptyResult
    /\ (Returned /\ result.zones = <<>>)
           => (result.connections = <<>> /\ result.perch_points = <<>>)

\* C1 witness: ingest returned from an assembly that got a door position
\* and no room polygon
C1_Witness ==
    Returned /\ room_polygons = <<>> /\ door_positions # <<>> /\ result = EmptyResult

\* C2: in every returned result, single or combined, both ends of every
\* connection are ids of zones of that result.
C2_ConnectionEndsExist ==
    Returned =>
        \A k \in 1..Len(result.connections) :
            /\ result.connections[k].from_zone_id \in ZoneIds(result)
            /\ result.connections[k].to_zone_id \in ZoneIds(result)

\* C2 witness: a combined multi-page result with a connection
C2_Witness ==
    Returned /\ MultiPage /\ result.connections # <<>> /\ i > 0

\* the ids of a result, kind by kind, in order
IdLists(res) ==
    <<[k \in 1..Len(res.zones) |-> res.zones[k].id],
      [k \in 1..Len(res.connections) |-> res.connections[k].id],
      [k \in 1..Len(res.perch_points) |-> res.perch_points[k].id]>>

IsPrefix(a, b) == Len(a) <= Len(b) /\ \A k \in 1..Len(a) : a[k] = b[k]

\* C10: all ids of a returned result are pairwise distinct (zones,
\* connections and perch points together), and a step never changes an id
\* already in the combined result: the ids of combined only grow at the end,
\* and the returned multi-page result carries exactly those ids.
C10_IdsDistinctAndStable ==
    /\ [](Returned =>
            Cardinality(ZoneIds(result) \cup ConnectionIds(result) \cup PerchIds(result))
            = Len(result.zones) + Len(result.connections) + Len(result.perch_points))
    /\ [][/\ \A kind \in 1..3 : IsPrefix(IdLists(combined)[kind], IdLists(combined')[kind])
          /\ (pc = "paged" /\ pc' = "done") => IdLists(result') = IdLists(combined)]_vars

\* C10 witness: a combined result with zones of two pages, a perch point
\* of each
C10_Witness ==
    /\ Returned /\ MultiPage
    /\ \E a, b \in 1..Len(result.zones) :
          result.zones[a].floor_level # result.zones[b].floor_level
    /\ Len(result.perch_points) >= 2

\* -------------------------------------------- claims on one floor plan
\* (plan and shapes specifications: result.zones[k] was made from
\* room_polygons[k])
DoorConns == SelectSeq(result.connections, LAMBDA c : c.connection_type = "door")

\* C3: every connection of a result, door or adjacency, links two
\* different zones.
C3_NoSelfConnection ==
    Returned =>
        \A k \in 1..Len(result.connections) :
            result.connections[k].from_zone_id # result.connections[k].to_zone_id

\* C3 witness: a door connection between the zones of two copies of one
\* polygon
C3_Witness ==
    /\ Returned /\ DoorConns # <<>>
    /\ \E a, b \in 1..Len(result.zones) :
          /\ a # b /\ room_polygons[a] = room_polygons[b]
          /\ DoorConns[1].from_zone_id = result.zones[a].id
          /\ DoorConns[1].to_zone_id = result.zones[b].id

\* C4: a result with n > 1 zones and no door connection holds exactly n - 1
\* connections, the i-th an adjacency connection from the i-th zone to the
\* (i+1)-th.
C4_AdjacencyChain ==
    (Returned /\ Len(result.zones) > 1 /\ DoorConns = <<>>) =>
        /\ Len(result.connections) = Len(result.zones) - 1
        /\ \A k \in 1..Len(result.connections) :
              /\ result.connections[k].connection_type = "adjacency"
              /\ result.connections[k].from_zone_id = result.zones[k].id
              /\ result.connections[k].to_zone_id = result.zones[k + 1].id

\* C4 witness: three zones, a door that connects nothing, two connections
C4_Witness ==
    /\ Returned /\ Len(result.zones) = 3 /\ door_positions # <<>>
    /\ Len(result.connections) = 2 /\ DoorConns = <<>>

\* the planar ring of a zone's stored polygon
ZoneRing(zone) ==
    geo_to_meters(zone.polygon, Origin(room_polygons)[1], Origin(room_polygons)[2],
                  venue_lat)

\* the squared distance between zone number k and a door position
ZoneDoorDist2(k, door_pos) == PolyDist2(ZoneRing(result.zones[k]), door_pos)

\* the zones less than 1.5 m (6 quarter metres) from a door position
ZonesWithinReach(door_pos) ==
    {k \in 1..Len(result.zones) : FracLess(ZoneDoorDist2(k, door_pos), <<36, 1>>)}

QualifyingDoors ==
    SelectSeq(door_positions, LAMBDA d : Cardinality(ZonesWithinReach(d)) >= 2)

ZoneIndex(id) == CHOOSE k \in 1..Len(result.zones) : result.zones[k].id = id

\* C5: the door connections of a result are, in order, one per door position
\* that has at least two zones within 1.5 m (distance to the zone's polygon
\* below 1.5 m; a zone at exactly 1.5 m does not count); each carries the
\* door's geographic position and links two zones within reach such that no
\* other zone is nearer to the door than either of them.  A door position
\* with fewer than two zones within reach leaves no connection.
C5_DoorConnections ==
    Returned =>
        /\ Len(DoorConns) = Len(QualifyingDoors)
        /\ \A k \in 1..Len(DoorConns) :
            LET door_pos == QualifyingDoors[k]
                a == ZoneIndex(DoorConns[k].from_zone_id)
                b == ZoneIndex(DoorConns[k].to_zone_id)
            IN  /\ DoorConns[k].position =
                       meter_to_geo_point(3 * door_pos[1], 3 * door_pos[2],
                           3 * Origin(room_polygons)[1], 3 * Origin(room_polygons)[2],
                           venue_lat)
                /\ a # b
                /\ {a, b} \subseteq ZonesWithinReach(door_pos)
                /\ ~FracLess(ZoneDoorDist2(b, door_pos), ZoneDoorDist2(a, door_pos))
                /\ \A z \in ZonesWithinReach(door_pos) \ {a, b} :
                       ~FracLess(ZoneDoorDist2(z, door_pos), ZoneDoorDist2(b, door_pos))

\* C5 witness: two door positions, one with two zones within reach, the
\* other with one zone within reach and a second zone at exactly 1.5 m
C5_Witness ==
    /\ Returned /\ Len(door_positions) = 2 /\ Len(DoorConns) = 1
    /\ \E d \in 1..2 :
          /\ Cardinality(ZonesWithinReach(door_positions[d])) = 1
          /\ \E k \in 1..Len(result.zones) :
                ZoneDoorDist2(k, door_positions[d]) = <<36, 1>>

\* the type the area thresholds give (area2 in 1/32 m^2)
StepType(area2) ==
    IF area2 < 192 THEN "closet"
    ELSE IF area2 < 480 THEN "room"
    ELSE IF area2 < 960 THEN "corridor"
    ELSE IF area2 < 1920 THEN "room"
    ELSE "lobby"

TypePriority(type) ==
    CASE type = "closet" -> 2
      [] type = "room" -> 4
      [] type = "corridor" -> 6
      [] type = "lobby" -> 8

\* C6: every zone's type is the step function of its polygon's area
\* (< 6 closet, < 15 room, < 30 corridor, < 60 room, else lobby, all bounds
\* strict), and its coverage priority is the table value of that type.
C6_TypeByArea ==
    Returned =>
        \A k \in 1..Len(result.zones) :
            /\ result.zones[k].type = StepType(Area2(room_polygons[k]))
            /\ result.zones[k].coverage_priority = TypePriority(result.zones[k].type)

\* C6 witness: zones of exactly 6 m^2 (room) and of 25 m^2 (corridor)
C6_Witness ==
    /\ Returned /\ Len(result.zones) = 2
    /\ result.zones[1].area_sq_m = 600 /\ result.zones[1].type = "room"
    /\ result.zones[2].area_sq_m = 2500 /\ result.zones[2].type = "corridor"

PerchCount(zone) ==
    Cardinality({k \in 1..Len(result.perch_points) :
                    result.perch_points[k].zone_id = zone.id})

\* clamp(floor(area / 15), 1, 4), the area in hundredths of a m^2
PerchTarget(area_sq_m) ==
    IF area_sq_m \div 1500 < 1 THEN 1
    ELSE IF area_sq_m \div 1500 > 4 THEN 4
    ELSE area_sq_m \div 1500

\* C7 as claimed: every zone has exactly clamp(floor(area / 15), 1, 4) perch
\* points, whatever the shape of its polygon.
C7_PerchCountIsClamp ==
    Returned =>
        \A k \in 1..Len(result.zones) :
            PerchCount(result.zones[k]) = PerchTarget(result.zones[k].area_sq_m)

\* C7 amended: every zone has min(clamp(floor(area / 15), 1, 4), number of
\* edges of its polygon) perch points.
C7_PerchCountUpToEdges ==
    Returned =>
        \A k \in 1..Len(result.zones) :
            PerchCount(result.zones[k]) =
                Min2(PerchTarget(result.zones[k].area_sq_m),
                     Len(ExteriorCoords(room_polygons[k])) - 1)

\* C7 witness: a triangle of at least 60 m^2 with 3 perch points, beside a
\* quadrilateral with 4
C7_Witness ==
    /\ Returned
    /\ \E a, b \in 1..Len(result.zones) :
          /\ Len(room_polygons[a]) = 3 /\ result.zones[a].area_sq_m >= 6000
          /\ PerchCount(result.zones[a]) = 3
          /\ Len(room_polygons[b]) = 4 /\ PerchCount(result.zones[b]) = 4

\* C8 as claimed: every zone has a polygon of at least 3 vertices and a
\* reported area above 0.
C8_PolygonAndAreaPositive ==
    Returned =>
        \A k \in 1..Len(result.zones) :
            Len(result.zones[k].polygon) >= 3 /\ result.zones[k].area_sq_m > 0

\* C9 as claimed: the stored polygon of a zone does not end with a
\* repetition of its first pair.
C9_PolygonStoredOpen ==
    Returned =>
        \A k \in 1..Len(result.zones) :
            result.zones[k].polygon[Len(result.zones[k].polygon)]
            # result.zones[k].polygon[1]

\* ------------------------------------------------- claims on paged documents
\* C11: in the multi-page loop the zones of the page with index i are one per
\* room polygon of that page, each with floor_level = floor_level + i and a
\* name starting with F{floor_level + i}; they end the combined zones, whose
\* floor levels never decrease (page order), and the combined result is the
\* result returned.
C11_PagesAreFloors ==
    MultiPage =>
        /\ pc = "paged" =>
            /\ Len(page_result.zones) = Len(room_polygons)
            /\ \A k \in 1..Len(page_result.zones) :
                  /\ page_result.zones[k].floor_level = floor_level + i
                  /\ SubSeq(page_result.zones[k].name, 1, 2) = <<"F", floor_level + i>>
            /\ Len(combined.zones) >= Len(page_result.zones)
            /\ SubSeq(combined.zones,
                      Len(combined.zones) - Len(page_result.zones) + 1,
                      Len(combined.zones)) = page_result.zones
        /\ \A k \in 1..Len(combined.zones) :
              /\ combined.zones[k].floor_level \in floor_level..(floor_level + i)
              /\ SubSeq(combined.zones[k].name, 1, 2)
                     = <<"F", combined.zones[k].floor_level>>
              /\ k > 1 => combined.zones[k - 1].floor_level
                              <= combined.zones[k].floor_level
        /\ Returned => result = combined

\* C11 witness: a document of 3 pages ingested with floor level 0 returned
\* zones of the floor levels 0, 1, 2
C11_Witness ==
    /\ Returned /\ MultiPage /\ images = 3 /\ floor_level = 0
    /\ [k \in 1..Len(result.zones) |-> result.zones[k].floor_level] = <<0, 1, 2>>

\* _ingest_pdf took one of its single-page paths (lines 251-265)
SinglePage ==
    /\ fmt = "pdf" /\ pc \in {"scan", "paged", "done"}
    /\ page_number # NoPage \/ images = 1

\* C12: with a page selected, or a document of one page, _process_image
\* runs once (no loop index, nothing combined, the uuid4 calls of one
\* assembly) and its result is returned, every zone with the caller's
\* floor level and an unprefixed name.
C12_SinglePageOnce ==
    SinglePage =>
        /\ pc # "paged" /\ i = 0 /\ combined = EmptyResult
        /\ Returned =>
            /\ result = page_result
            /\ calls = UuidCalls(result)
            /\ Len(result.zones) = Len(room_polygons)
            /\ \A k \in 1..Len(result.zones) :
                  /\ result.zones[k].floor_level = floor_level
                  /\ result.zones[k].name = <<"Zone", k, result.zones[k].type>>

\* C12 witness: page 2 was selected and a zone was returned
C12_Witness ==
    /\ Returned /\ fmt = "pdf" /\ page_number = 2 /\ images = 1
    /\ result.zones # <<>>

\* C13: a multi-page ingest returns only after its last page (and then the
\* combined result of all pages); once a page has failed the call has
\* raised, nothing is returned and nothing is returned later.
C13_NoPartialResult ==
    /\ [](MultiPage /\ Returned => i + 1 = images /\ result = combined)
    /\ [](pc = "raised" => result = EmptyResult)
    /\ [][pc = "raised" => pc' = "raised" /\ result' = result]_vars

\* C13 witness: the second or a later page failed after earlier pages had
\* given zones
C13_Witness ==
    /\ pc = "raised" /\ MultiPage /\ i >= 1 /\ error = "cv2.error"
    /\ combined.zones # <<>>

\* the messages of the errors _ingest_image and _ingest_pdf raise themselves
IngestMessages ==
    {"Could not read image", "Could not extract page from PDF",
     "Could not extract any pages from PDF"}

\* C14: reading an image either succeeds or raises "Could not read image";
\* rendering a PDF either gives at least one page or raises, with "Could not
\* extract page ..." (page selected) or "Could not extract any pages ..." when
\* it gave zero pages; a call that raised has a message and returned
\* nothing, a call that returned (the empty result included) has raised
\* nothing, and after raising ingest does nothing more (no retry).
C14_RaisesWithMessage ==
    /\ [](pc = "raised" => error # NoError /\ result = EmptyResult)
    /\ [](Returned => error = NoError)
    /\ [][(pc = "start" /\ fmt = "image") =>
            \/ pc' = "scan" /\ error' = NoError
            \/ pc' = "raised" /\ error' = "Could not read image"]_vars
    /\ [][(pc = "start" /\ fmt = "pdf") =>
            \/ pc' = "scan" /\ images' >= 1 /\ error' = NoError
            \/ /\ pc' = "raised" /\ images' = 0
               /\ error' \in {"PDFPageCountError",
                              IF page_number # NoPage
                              THEN "Could not extract page from PDF"
                              ELSE "Could not extract any pages from PDF"}]_vars
    /\ [][pc = "raised" => UNCHANGED ingest_vars]_vars

\* C14 witness: a selected page gave no image and ingest raised
C14_Witness ==
    /\ pc = "raised" /\ fmt = "pdf" /\ page_number # NoPage /\ images = 0
    /\ error = "Could not extract page from PDF"

\* ------------------------------------------------ claims on detect_format
\* the extension of the final path component, lower case
FileExtension == Lower(PathSuffix(op_args.file_path))

FirstBytes == SubSeq(op_args.content, 1, Min2(16, Len(op_args.content)))

HasVectorMarker == Contains(FirstBytes, <<"S", "E", "C", "T", "I", "O", "N">>) \/ Contains(FirstBytes, <<"A", "u", "t", "o", "C", "A", "D">>)

HasPdfSignature == Len(FirstBytes) >= 4 /\ SubSeq(FirstBytes, 1, 4) = <<"%", "P", "D", "F">>

ExtensionFormat ==
    CASE FileExtension \in {<<".", "d", "x", "f">>, <<".", "d", "w", "g">>} -> "dxf"
      [] FileExtension = <<".", "p", "d", "f">> -> "pdf"
      [] FileExtension \in {<<".", "p", "n", "g">>, <<".", "j", "p", "g">>, <<".", "j", "p", "e", "g">>,
                            <<".", "t", "i", "f", "f">>, <<".", "b", "m", "p">>} -> "image"
      [] OTHER -> "none"

\* C15: detect_format returns one of dxf, pdf, image for every readable
\* file: the format of a recognized extension; otherwise dxf when the first
\* 16 bytes hold a vector marker, otherwise pdf when they start with the PDF
\* signature, otherwise image.
C15_DetectFormat ==
    (op_args # None /\ op_args.op = "detect_format" /\ op_result # None) =>
        /\ op_result[1] \in {"dxf", "pdf", "image"}
        /\ ExtensionFormat # "none" => op_result[1] = ExtensionFormat
        /\ ExtensionFormat = "none" =>
            /\ HasVectorMarker => op_result[1] = "dxf"
            /\ (~HasVectorMarker /\ HasPdfSignature) => op_result[1] = "pdf"
            /\ (~HasVectorMarker /\ ~HasPdfSignature) => op_result[1] = "image"

\* C15 witness: a file without a recognized extension, with content that is
\* neither a drawing nor a PDF, was detected as image
C15_Witness ==
    /\ op_args # None /\ op_args.op = "detect_format" /\ op_result = <<"image">>
    /\ ExtensionFormat = "none" /\ op_args.content # <<>>
    /\ ~HasVectorMarker /\ ~HasPdfSignature

\* --------------------------------------------------- claims on the page count
\* C16 as claimed: for a venue that exists the page-count operation never
\* raises and returns an integer of at least 1, whatever the metadata of the
\* document report.
C16_PageCountAtLeastOne ==
    (op_args # None /\ op_args.op = "get_page_count" /\ op_result # None
     /\ op_args.venue_found) =>
        op_result[1] = "returned" /\ op_result[2] >= 1

\* ------------------------------------------------- claims on the transforms
\* |frac - value| <= 1/1000 m, frac a fraction and value a whole number of
\* twelfths of a metre: 1000 * |num - value * den| <= 12 * den
WithinMillimetre(frac, value) ==
    Abs(frac[1] - value * frac[2]) <= (3 * frac[2]) \div 250

\* C17: a planar point converted to geographic coordinates (rounded to 8
\* decimals) and back, with the same origin and anchor, is within 1e-3 m of
\* the point in x and in y.
C17_RoundTrip ==
    (op_args # None /\ op_args.op = "round_trip" /\ op_result # None
     /\ op_result.back # None) =>
        /\ WithinMillimetre(op_result.back.x, op_args.x)
        /\ WithinMillimetre(op_result.back.y, op_args.y)

\* C17 witness: a round trip at latitude 60 with an origin other than (0, 0)
\* that the rounding made inexact in x and in y
C17_Witness ==
    /\ op_args # None /\ op_args.op = "round_trip" /\ op_result # None
    /\ op_result.back # None
    /\ op_args.venue_lat = 60 /\ op_args.origin_x # 0
    /\ op_result.back.x[1] # op_args.x * op_result.back.x[2]
    /\ op_result.back.y[1] # op_args.y * op_result.back.y[2]

\* ---------------------------------------------- claims on door detection
\* the endpoint pairs <<a, b, end of a, end of b>> of two different segments
\* (a before b) whose squared distance is within [0.7 m, 1.5 m] squared
GapPairs ==
    LET segs == op_args.wall_segments
    IN  {q \in (1..Len(segs)) \X (1..Len(segs)) \X (1..2) \X (1..2) :
            /\ q[1] < q[2]
            /\ 4900 <= EndDist2(segs[q[1]][q[3]], segs[q[2]][q[4]])
            /\ EndDist2(segs[q[1]][q[3]], segs[q[2]][q[4]]) <= 22500}

PairMidpoint2(q) ==
    LET segs == op_args.wall_segments
    IN  <<segs[q[1]][q[3]][1] + segs[q[2]][q[4]][1],
          segs[q[1]][q[3]][2] + segs[q[2]][q[4]][2]>>

\* C18: the door candidates are, one per pair, the midpoints of exactly the
\* endpoint pairs of two different wall segments whose distance d satisfies
\* 0.7 <= d <= 1.5 m; the doors returned are candidates.
C18_DoorCandidates ==
    (op_args # None /\ op_args.op = "detect_doors" /\ op_result # None) =>
        /\ Len(op_result.doors) = Cardinality(GapPairs)
        /\ {op_result.doors[k] : k \in 1..Len(op_result.doors)}
               = {PairMidpoint2(q) : q \in GapPairs}
        /\ {op_result.deduped[k] : k \in 1..Len(op_result.deduped)}
               \subseteq {op_result.doors[k] : k \in 1..Len(op_result.doors)}

\* C18 witness: gaps of exactly 0.7 m and 1.5 m beside a segment whose own
\* ends are 1 m apart gave the first two of five candidates
C18_Witness ==
    /\ op_args # None /\ op_args.op = "detect_doors" /\ op_result # None
    /\ op_args.wall_segments = <<<<<<0, 0>>, <<100, 0>>>>, <<<<170, 0>>, <<400, 0>>>>,
                                 <<<<250, 0>>, <<480, 0>>>>>>
    /\ Len(op_result.doors) = 5
    /\ SubSeq(op_result.doors, 1, 2) = <<<<270, 0>>, <<350, 0>>>>

\* ------------------------------------------------ claims on the vector scale
\* the dimension entities with a positive measurement and two different
\* defpoints whose attributes can be read
ValidDimensions ==
    {k \in 1..Len(op_args.entities) :
        LET e == op_args.entities[k]
        IN  /\ e.kind \in {"DIMENSION", "ALIGNED_DIMENSION"}
            /\ ~e.fails /\ e.measurement > 0 /\ e.pts[1] # e.pts[2]}

\* scale = measurement / distance of the defpoints: scale^2 * distance^2 =
\* measurement^2
IsScaleOf(scale, e) ==
    /\ scale[1] > 0 /\ scale[2] > 0
    /\ scale[1] * scale[1] * EndDist2(e.pts[1], e.pts[2])
           = e.measurement * e.measurement * scale[2] * scale[2]

\* the fraction equals coordinate * scale
IsScaled(frac, coordinate, scale) ==
    frac[1] * scale[2] = coordinate * scale[1] * frac[2]

\* C19: the scale is the explicit scale when one is given; otherwise that
\* of the first valid dimension entity in drawing order; otherwise 0.001;
\* and every coordinate of the wall segments, door positions and room
\* polygons is a coordinate (or, for a door line, a midpoint) of the drawing
\* times that scale.
C19_VectorScale ==
    (op_args # None /\ op_args.op = "ingest_dxf" /\ op_result # None) =>
        /\ op_args.scale_given => op_result.scale = op_args.scale_value
        /\ (~op_args.scale_given /\ ValidDimensions # {}) =>
               IsScaleOf(op_result.scale, op_args.entities[SetMin(ValidDimensions)])
        /\ (~op_args.scale_given /\ ValidDimensions = {}) =>
               op_result.scale = <<1, 1000>>
        /\ \A k \in 1..Len(op_result.wall_segments), e \in 1..2, c \in 1..2 :
               \E h \in 1..Len(op_args.entities) :
               \E j \in 1..Len(op_args.entities[h].pts) :
                   IsScaled(op_result.wall_segments[k][e][c],
                            op_args.entities[h].pts[j][c], op_result.scale)
        /\ \A k \in 1..Len(op_result.room_polygons) :
               \E h \in 1..Len(op_args.entities) :
                   /\ Len(op_result.room_polygons[k]) = Len(op_args.entities[h].pts)
                   /\ \A j \in 1..Len(op_result.room_polygons[k]), c \in 1..2 :
                          IsScaled(op_result.room_polygons[k][j][c],
                                   op_args.entities[h].pts[j][c], op_result.scale)
        /\ \A k \in 1..Len(op_result.door_positions), c \in 1..2 :
               \E h \in 1..Len(op_args.entities) :
                   \/ IsScaled(op_result.door_positions[k][c],
                               op_args.entities[h].pts[1][c], op_result.scale)
                   \/ /\ Len(op_args.entities[h].pts) = 2
                      /\ 2 * op_result.door_positions[k][c][1] * op_result.scale[2]
                            = (op_args.entities[h].pts[1][c]
                               + op_args.entities[h].pts[2][c])
                              * op_result.scale[1] * op_result.door_positions[k][c][2]

\* C19 witness: no explicit scale, a dimension whose attributes raise before
\* the dimension that gave 10 / 5, and a room polygon scaled by it
C19_Witness ==
    /\ op_args # None /\ op_args.op = "ingest_dxf" /\ op_result # None
    /\ ~op_args.scale_given /\ Len(op_args.entities) = 3
    /\ op_args.entities[1].fails
    /\ op_result.scale = <<10, 5>>
    /\ Len(op_result.room_polygons) = 1
    /\ op_result.room_polygons[1][2] = <<<<40000, 5>>, <<0, 5>>>>

\* ------------------------------------------------ claims on the endpoint
\* C20: when a call of the ingest endpoint has ended, by returning or by
\* raising, no temporary copy is left: a file that was created is deleted,
\* whether ingestion succeeded, ingestion raised, the download failed or a
\* commit failed.
C20_TmpDeleted ==
    ep = "ended" =>
        /\ tmp_file \in {"none", "deleted"}
        /\ (exc \in {"download failed", "commit failed", "persist failed"}
               \/ pc \in {"done", "raised"}) => tmp_file = "deleted"

\* C20 witness: the commit of a completed ingestion failed, the second
\* commit failed too, and the call ended by raising with the file deleted
C20_Witness ==
    /\ ep = "ended" /\ pc = "done" /\ exc = "commit failed"
    /\ response = [raised |-> "commit failed"]
    /\ job.status = "failed"
    /\ tmp_file = "deleted"

\* ------------------------------------------------ claims on perch points
\* the results a call holds: the last page's, the combined one, the returned
HeldResults == {page_result, combined, result}

\* the positions of the zones of res a perch point names
NamedZones(res, perch) ==
    {z \in 1..Len(res.zones) : res.zones[z].id = perch.zone_id}

\* C21: every perch point of every result names exactly one zone of the
\* same result, carries that zone's tier requirement and, when that zone is
\* indoor, is a vertical wall position at 3.0 m.
C21_PerchPointZone ==
    \A res \in HeldResults :
        \A k \in 1..Len(res.perch_points) :
            LET perch == res.perch_points[k]
            IN  /\ Cardinality(NamedZones(res, perch)) = 1
                /\ \A z \in NamedZones(res, perch) :
                      /\ perch.tier_required = res.zones[z].tier_requirement
                      /\ res.zones[z].environment = "indoor" =>
                            /\ perch.surface_class = "wall"
                            /\ perch.surface_orientation = "vertical"
                            /\ perch.height_m = 30

\* C21 witness: a returned combined result of two pages whose perch points
\* name zones of both floors
C21_Witness ==
    /\ Returned /\ MultiPage
    /\ \E a, b \in 1..Len(result.perch_points) :
       \E za \in NamedZones(result, result.perch_points[a]) :
       \E zb \in NamedZones(result, result.perch_points[b]) :
           result.zones[za].floor_level # result.zones[zb].floor_level

\* ------------------------------------------------ claims on delta sync
ZoneConnections == {r \in store : r.table = "zone_connections"}

\* C22: the zone_connections rows hold at most one connection per from/to
\* zone pair, whatever was pushed.
C22_OnePerPair ==
    \A a, b \in ZoneConnections :
        (a.from_zone_id = b.from_zone_id /\ a.to_zone_id = b.to_zone_id) => a.id = b.id

\* the observing workstation has just pulled with the version it recorded
ObserverPulled ==
    /\ op_args # None /\ op_args.op = "pull" /\ op_args.workstation = Observer
    /\ op_result.raised = NoError /\ op_args.since = recorded

\* C23: a pull with since = V, V the cloud version the workstation recorded
\* from its last pull or push, contains every row of the customer that a
\* push of another workstation inserted or updated since.
C23_PullComplete ==
    ObserverPulled =>
        \A key \in changed :
            \E e \in op_result.entities : e[1] = key[1] /\ e[2] = key[2]

\* ------------------------------------------------ claims on connectivity
\* the ids of the zones that are an end of some connection of the result
ConnectedZoneIds ==
    {result.connections[k].from_zone_id : k \in 1..Len(result.connections)}
    \cup {result.connections[k].to_zone_id : k \in 1..Len(result.connections)}

\* C24 as stated: in a result of one assembly with more than one zone every
\* zone is an end of at least one connection.
C24_EveryZoneConnected ==
    (Returned /\ Len(result.zones) > 1) => ZoneIds(result) \subseteq ConnectedZoneIds

\* C24 amended: a result of one assembly with more than one zone has at
\* least one connection, and when none of them is a door connection every
\* zone is an end of an adjacency connection.
C24_ConnectedWithoutDoors ==
    (Returned /\ Len(result.zones) > 1) =>
        /\ result.connections # <<>>
        /\ DoorConns = <<>> => ZoneIds(result) \subseteq ConnectedZoneIds

\* C24 witness: three zones, a door connection between two of them and no
\* connection at the third
C24_Witness ==
    /\ Returned /\ Len(result.zones) = 3
    /\ DoorConns # <<>>
    /\ result.connections # <<>>
    /\ Cardinality(ZoneIds(result) \ ConnectedZoneIds) = 1

\* ------------------------------------------------ claims on door deduplication
\* the 0.1 m grid cell a candidate snaps to
GridCell(door) ==
    <<RoundTenth(door[1], op_args.tie_up), RoundTenth(door[2], op_args.tie_up)>>

\* C25: no two retained candidates snap to one grid cell, every candidate
\* found has a retained candidate in its cell, and the retained candidate of
\* a cell is the first candidate found in that cell, with the coordinates it
\* was found with.
C25_DoorDedup ==
    (op_args # None /\ op_args.op = "detect_doors" /\ op_result # None) =>
        LET doors == op_result.doors
            unique == op_result.deduped
        IN  /\ \A a, b \in 1..Len(unique) :
                  GridCell(unique[a]) = GridCell(unique[b]) => a = b
            /\ \A k \in 1..Len(doors) :
                  \E a \in 1..Len(unique) : GridCell(unique[a]) = GridCell(doors[k])
            /\ \A a \in 1..Len(unique) :
                  unique[a] = doors[SetMin({k \in 1..Len(doors) :
                                               GridCell(doors[k]) = GridCell(unique[a])})]

\* C25 witness: the candidates at 1.36 m and 1.37 m were found in this order,
\* and only the one at 1.36 m is retained
C25_Witness ==
    /\ op_args # None /\ op_args.op = "detect_doors" /\ op_result # None
    /\ op_result.doors = <<<<272, 0>>, <<274, 0>>>>
    /\ op_result.deduped = <<<<272, 0>>>>

\* ------------------------------------------------ claims on the ingestion job
\* the endpoint has ended by returning a response body
ResponseReturned == ep = "ended" /\ "status" \in DOMAIN response

\* C26: whenever the endpoint returns a response, the stored job is
\* completed or failed, as the response says; a completed job carries the
\* sizes of the pipeline's result, a failed job the error message and no
\* counts.
C26_JobStatus ==
    ResponseReturned =>
        /\ db.job # None
        /\ db.job.status \in {"completed", "failed"}
        /\ db.job.status = response.status
        /\ db.job.status = "completed" =>
              /\ db.job.zone_count = Len(result.zones)
              /\ db.job.connection_count = Len(result.connections)
              /\ db.job.perch_point_count = Len(result.perch_points)
        /\ db.job.status = "failed" =>
              /\ db.job.error_message = exc
              /\ db.job.zone_count = None
              /\ db.job.connection_count = None
              /\ db.job.perch_point_count = None

\* the call ended with the job failed: a failed response, or the error of
\* the except clause's commit
EndedFailed == ep = "ended" /\ job # None /\ job.status = "failed"

\* C27: when the endpoint ends with the job failed, no zone, connection or
\* perch point of the call is stored and the venue's floor-plan fields and
\* cloud_version are as before the call.
C27_NothingPersistedOnFailure ==
    EndedFailed =>
        /\ db.zones = 0 /\ db.connections = 0 /\ db.perch_points = 0
        /\ db.floor_plan_blob_key = EmptyDb.floor_plan_blob_key
        /\ db.cloud_version = EmptyDb.cloud_version

\* ------------------------------------------------ claims on delta sync (tenants)
RowsOf(rows, customer) == {r \in rows : r.customer_id = customer}

\* C28: a push of customer A leaves every row of customer B as it was,
\* cloud_version included.
C28_OtherCustomerUntouched ==
    [][(op_args' # None /\ op_args'.op = "push" /\ op_args'.customer = "A")
          => RowsOf(store', "B") = RowsOf(store, "B")]_vars

\* ------------------------------------------------ claims on combined results
\* the floor levels of the zones of res with this id
FloorsOf(res, zone_id) ==
    {res.zones[z].floor_level : z \in {h \in 1..Len(res.zones) : res.zones[h].id = zone_id}}

\* both ends of every connection of res are zones of one floor level
SameFloorConnections(res) ==
    \A k \in 1..Len(res.connections) :
        /\ FloorsOf(res, res.connections[k].from_zone_id) # {}
        /\ FloorsOf(res, res.connections[k].to_zone_id) # {}
        /\ Cardinality(FloorsOf(res, res.connections[k].from_zone_id)
                       \cup FloorsOf(res, res.connections[k].to_zone_id)) = 1

\* the part of a list that a step appended
Appended(before, after) == SubSeq(after, Len(before) + 1, Len(after))

\* C29: in a combined multi-page result every connection links two zones of
\* one floor level; the connections and perch points a page adds name zones
\* of that page only, whose floor is the page's; and a page with more than
\* one zone and no door connection gets its own adjacency chain, whatever
\* the other pages hold.
C29_PagesStaySeparate ==
    /\ [](MultiPage => SameFloorConnections(combined) /\ SameFloorConnections(result))
    /\ [][(MultiPage /\ pc = "scan" /\ pc' = "paged") =>
             LET zones == Appended(combined.zones, combined'.zones)
                 connections == Appended(combined.connections, combined'.connections)
                 perch_points == Appended(combined.perch_points, combined'.perch_points)
                 page_ids == {zones[z].id : z \in 1..Len(zones)}
             IN  /\ \A z \in 1..Len(zones) : zones[z].floor_level = floor_level + i
                 /\ \A k \in 1..Len(connections) :
                        {connections[k].from_zone_id, connections[k].to_zone_id}
                            \subseteq page_ids
                 /\ \A k \in 1..Len(perch_points) : perch_points[k].zone_id \in page_ids
                 /\ Len(zones) > 1 => Len(connections) >= 1]_vars

\* C29 witness: a returned combined result whose zones lie on two floors,
\* with an adjacency connection on one of them and perch points on both
C29_Witness ==
    /\ Returned /\ MultiPage
    /\ \E a \in 1..Len(result.connections) :
       \E p, q \in 1..Len(result.perch_points) :
          /\ result.connections[a].connection_type = "adjacency"
          /\ FloorsOf(result, result.perch_points[p].zone_id)
                = FloorsOf(result, result.connections[a].from_zone_id)
          /\ FloorsOf(result, result.perch_points[q].zone_id)
                # FloorsOf(result, result.connections[a].from_zone_id)

\* ------------------------------------------------ claims on pages_processed
\* C30: the pages_processed of a completed response is the number of pages
\* the pipeline processed: the page count of a PDF ingested without a page
\* selector, and 1 for a selected page, an image or a drawing.
C30_PagesProcessed ==
    (ResponseReturned /\ response.status = "completed") =>
        response.pages_processed =
            IF fmt = "pdf" /\ page_number = NoPage THEN images ELSE 1

====
